---- MODULE Spec2Model ----
(***************************************************************************)
(* Browser artifact synthesis of sandbox_populator: the timestamp codecs   *)
(* (utils/helpers.py), the activity timeline synthesizer, the two history  *)
(* store encoders, the summary writer, the credential and cookie           *)
(* derivation and the per-browser coordinator                              *)
(* (generators/browser_data.py).  Three specifications: Spec (runs of the  *)
(* coordinator against one base path, with failing writes), SpecStore (the *)
(* synthesizer followed by one encoder) and SpecCodec (the codecs).        *)
(***************************************************************************)
EXTENDS Integers, Sequences, FiniteSets, TLC

(***************************************************************************)
(* Bounds of the model.  The event counts of the code (250, 200 and 180    *)
(* entries, a summary of the last 50) are scaled down, keeping every       *)
(* browser's event count above the length of the summary.                  *)
(***************************************************************************)
\* generate_browsing_history(N) is explored for N = 0..MaxEntries
MaxEntries == 3

\* the history[-50:] of the summary writer, scaled
SummaryTail == 1

\* the events per browser of one run of the coordinator, scaled
RunEntries == SummaryTail + 1

\* generation runs against the same base path
MaxRuns == 2

\* the codecs are explored for the microseconds 0..MaxMicro (and two more)
MaxMicro == 3

(***************************************************************************)
(* Python integers are unbounded and Python floats are IEEE-754 binary64.  *)
(* Both are modelled exactly.  A natural number is a little-endian         *)
(* sequence of base-1024 limbs without leading zero limbs (<<>> is 0); an  *)
(* integer is a record [neg, mag]; a float is a record [neg, m, e] that    *)
(* stands for (+/-) m * 2^e, with m = 0 or 2^52 <= m < 2^53.               *)
(***************************************************************************)
RECURSIVE BigNorm(_)
BigNorm(a) ==
    IF a = <<>> THEN <<>>
    ELSE IF a[Len(a)] = 0 THEN BigNorm(SubSeq(a, 1, Len(a) - 1))
    ELSE a

RECURSIVE BigFromNat(_)
BigFromNat(n) ==
    IF n = 0 THEN <<>> ELSE <<n % 1024>> \o BigFromNat(n \div 1024)

RECURSIVE BigAddC(_, _, _)
BigAddC(a, b, c) ==
    IF a = <<>> /\ b = <<>> THEN (IF c = 0 THEN <<>> ELSE <<c>>)
    ELSE LET x == IF a = <<>> THEN 0 ELSE Head(a)
             y == IF b = <<>> THEN 0 ELSE Head(b)
             s == x + y + c
         IN  <<s % 1024>> \o BigAddC(IF a = <<>> THEN <<>> ELSE Tail(a),
                                     IF b = <<>> THEN <<>> ELSE Tail(b),
                                     s \div 1024)

BigAdd(a, b) == BigAddC(a, b, 0)

RECURSIVE BigSubB(_, _, _)
BigSubB(a, b, c) ==
    IF a = <<>> THEN <<>>
    ELSE LET y == IF b = <<>> THEN 0 ELSE Head(b)
             d == Head(a) - y - c
         IN  <<IF d < 0 THEN d + 1024 ELSE d>>
                 \o BigSubB(Tail(a), IF b = <<>> THEN <<>> ELSE Tail(b),
                            IF d < 0 THEN 1 ELSE 0)

\* a - b for a >= b
BigSub(a, b) == BigNorm(BigSubB(a, b, 0))

RECURSIVE BigLess(_, _)
BigLess(a, b) ==
    IF Len(a) # Len(b) THEN Len(a) < Len(b)
    ELSE IF a = <<>> THEN FALSE
    ELSE IF a[Len(a)] # b[Len(b)] THEN a[Len(a)] < b[Len(b)]
    ELSE BigLess(SubSeq(a, 1, Len(a) - 1), SubSeq(b, 1, Len(b) - 1))

RECURSIVE BigMulC(_, _, _)
BigMulC(a, c, carry) ==
    IF a = <<>> THEN BigFromNat(carry)
    ELSE LET p == Head(a) * c + carry
         IN  <<p % 1024>> \o BigMulC(Tail(a), c, p \div 1024)

\* a * c for a small factor c (0 <= c <= 2000000)
BigMulSmall(a, c) == IF c = 0 THEN <<>> ELSE BigMulC(a, c, 0)

RECURSIVE BigDivStep(_, _)
BigDivStep(a, d) ==
    IF a = <<>> THEN [q |-> <<>>, r |-> 0]
    ELSE LET hi  == BigDivStep(Tail(a), d)
             cur == hi.r * 1024 + Head(a)
         IN  [q |-> <<cur \div d>> \o hi.q, r |-> cur % d]

\* floor division and remainder by a small divisor d (1 <= d <= 2000000)
BigDivMod(a, d) ==
    LET s == BigDivStep(a, d) IN [q |-> BigNorm(s.q), r |-> s.r]

BigIsOdd(a) == a # <<>> /\ Head(a) % 2 = 1

RECURSIVE SmallBitLen(_)
SmallBitLen(n) == IF n = 0 THEN 0 ELSE 1 + SmallBitLen(n \div 2)

\* int.bit_length()
BigBitLen(a) ==
    IF a = <<>> THEN 0 ELSE 10 * (Len(a) - 1) + SmallBitLen(a[Len(a)])

\* a * 2^k for k >= 0
BigShl(a, k) ==
    IF a = <<>> THEN <<>>
    ELSE BigMulSmall([i \in 1..(k \div 10) |-> 0] \o a, 2 ^ (k % 10))

\* floor(a / 2^k) for k >= 0, and whether a nonzero bit was shifted out
BigShr(a, k) ==
    LET n    == k \div 10
        kept == IF n >= Len(a) THEN <<>> ELSE SubSeq(a, n + 1, Len(a))
        dm   == BigDivMod(kept, 2 ^ (k % 10))
    IN  [q    |-> dm.q,
         lost |-> dm.r # 0 \/ \E i \in 1..Len(a) : i <= n /\ a[i] # 0]

Two52 == BigShl(<<1>>, 52)

Two53 == BigShl(<<1>>, 53)

(* signed integers *)
IntOf(neg, mag) == [neg |-> neg /\ mag # <<>>, mag |-> mag]

IntFromSmall(n) == IF n < 0 THEN IntOf(TRUE, BigFromNat(0 - n))
                   ELSE IntOf(FALSE, BigFromNat(n))

IntAdd(x, y) ==
    IF x.neg = y.neg THEN IntOf(x.neg, BigAdd(x.mag, y.mag))
    ELSE IF BigLess(x.mag, y.mag) THEN IntOf(y.neg, BigSub(y.mag, x.mag))
    ELSE IntOf(x.neg, BigSub(x.mag, y.mag))

IntNeg(x) == IntOf(~x.neg, x.mag)

IntSub(x, y) == IntAdd(x, IntNeg(y))

IntMulSmall(x, c) == IntOf(x.neg, BigMulSmall(x.mag, c))

(* binary64 *)
FloatZero == [neg |-> FALSE, m |-> <<>>, e |-> 0]

\* round-half-to-even of (q + fraction) * 2^e to 53 significant bits, where
\* q >= 2^52, half is the first fraction bit and sticky says whether any
\* later fraction bit is set
RECURSIVE FRound(_, _, _, _, _)
FRound(neg, q, half, sticky, e) ==
    IF ~BigLess(q, Two53)
    THEN LET dm == BigDivMod(q, 2)
         IN  FRound(neg, dm.q, dm.r = 1, half \/ sticky, e + 1)
    ELSE LET up == half /\ (sticky \/ BigIsOdd(q))
             r  == IF up THEN BigAdd(q, <<1>>) ELSE q
         IN  IF r = Two53 THEN [neg |-> neg, m |-> Two52, e |-> e + 1]
             ELSE [neg |-> neg, m |-> r, e |-> e]

\* the float nearest to (+/-) (a / d) * 2^e, for a natural a and a small
\* divisor d: the quotient is taken with 54 or 55 significant bits and the
\* rest is rounded away
FRoundRatio(neg, a, d, e) ==
    IF a = <<>> THEN FloatZero
    ELSE LET s  == 54 - (BigBitLen(a) - SmallBitLen(d))
             sh == IF s >= 0 THEN [q |-> BigShl(a, s), lost |-> FALSE]
                   ELSE BigShr(a, 0 - s)
             dm == BigDivMod(sh.q, d)
         IN  FRound(neg, dm.q, FALSE, sh.lost \/ dm.r # 0, e - s)

\* int / int (true division, correctly rounded) by a small positive divisor
FloatTrueDiv(x, d) == FRoundRatio(x.neg, x.mag, d, 0)

\* float(int)
FloatFromInt(x) == FRoundRatio(x.neg, x.mag, 1, 0)

\* float * int for a small positive factor c that is exact as a float
FloatMulSmall(f, c) == FRoundRatio(f.neg, BigMulSmall(f.m, c), 1, f.e)

\* float + float, correctly rounded (the exact sum is formed first)
FloatAdd(f, g) ==
    IF f.m = <<>> THEN g
    ELSE IF g.m = <<>> THEN f
    ELSE LET e  == IF f.e < g.e THEN f.e ELSE g.e
             s  == IntAdd(IntOf(f.neg, BigShl(f.m, f.e - e)),
                          IntOf(g.neg, BigShl(g.m, g.e - e)))
         IN  FRoundRatio(s.neg, s.mag, 1, e)

\* int(float): truncation toward zero
FloatToInt(f) ==
    IF f.e >= 0 THEN IntOf(f.neg, BigShl(f.m, f.e))
    ELSE IntOf(f.neg, BigShr(f.m, 0 - f.e).q)

(***************************************************************************)
(* datetime: a naive calendar value [year, month, day, hour, minute,       *)
(* second, microsecond]; differences and ordinals as in Python's datetime. *)
(***************************************************************************)
DateTime(y, mo, d, h, mi, s, us) ==
    [year |-> y, month |-> mo, day |-> d, hour |-> h, minute |-> mi,
     second |-> s, microsecond |-> us]

IsLeap(y) == y % 4 = 0 /\ (y % 100 # 0 \/ y % 400 = 0)

DaysInMonth(y, mo) ==
    IF mo = 2 THEN (IF IsLeap(y) THEN 29 ELSE 28)
    ELSE IF mo \in {4, 6, 9, 11} THEN 30 ELSE 31

RECURSIVE DaysBeforeMonth(_, _)
DaysBeforeMonth(y, mo) ==
    IF mo = 1 THEN 0 ELSE DaysBeforeMonth(y, mo - 1) + DaysInMonth(y, mo - 1)

DaysBeforeYear(y) ==
    (y - 1) * 365 + ((y - 1) \div 4) - ((y - 1) \div 100) + ((y - 1) \div 400)

ToOrdinal(dt) ==
    DaysBeforeYear(dt.year) + DaysBeforeMonth(dt.year, dt.month) + dt.day

SecondOfDay(dt) == dt.second + dt.minute * 60 + dt.hour * 3600

\* (a - b) // timedelta(seconds=1): whole seconds of the difference, floored
DeltaSeconds(a, b) ==
    LET secs == IntAdd(IntMulSmall(IntFromSmall(ToOrdinal(a) - ToOrdinal(b)), 86400),
                       IntFromSmall(SecondOfDay(a) - SecondOfDay(b)))
        us   == a.microsecond - b.microsecond
    IN  IF us < 0 THEN IntSub(secs, IntFromSmall(1)) ELSE secs

\* the timedelta a - b as an exact count of microseconds
DeltaMicros(a, b) ==
    IntAdd(IntMulSmall(
               IntAdd(IntMulSmall(IntFromSmall(ToOrdinal(a) - ToOrdinal(b)), 86400),
                      IntFromSmall(SecondOfDay(a) - SecondOfDay(b))),
               1000000),
           IntFromSmall(a.microsecond - b.microsecond))

\* timedelta.total_seconds(): total microseconds / 10**6 as a float
TotalSeconds(us) == FloatTrueDiv(us, 1000000)

\* date.fromordinal (datetime._ord2ymd)
FromOrdinal(n0) ==
    LET n    == n0 - 1
        n400 == n \div 146097
        r400 == n % 146097
        n100 == r400 \div 36524
        r100 == r400 % 36524
        n4   == r100 \div 1461
        r4   == r100 % 1461
        n1   == r4 \div 365
        r1   == r4 % 365
        year == n400 * 400 + 1 + n100 * 100 + n4 * 4 + n1
        leap == n1 = 3 /\ (n4 # 24 \/ n100 = 3)
        m0   == (r1 + 50) \div 32
        pre0 == DaysBeforeMonth(1, m0) + (IF m0 > 2 /\ leap THEN 1 ELSE 0)
        mon  == IF pre0 > r1 THEN m0 - 1 ELSE m0
        pre  == IF pre0 > r1
                THEN pre0 - (DaysInMonth(1, mon) + (IF mon = 2 /\ leap THEN 1 ELSE 0))
                ELSE pre0
    IN  IF n1 = 4 \/ n100 = 4
        THEN [year |-> year - 1, month |-> 12, day |-> 31]
        ELSE [year |-> year, month |-> mon, day |-> r1 - pre + 1]

\* dt + timedelta(days=n) (n may be negative)
DtPlusDays(dt, n) ==
    LET ymd == FromOrdinal(ToOrdinal(dt) + n)
    IN  [dt EXCEPT !.year = ymd.year, !.month = ymd.month, !.day = ymd.day]

\* lexicographic order of naive datetimes (datetime.__lt__)
DtKey(dt) == <<dt.year, dt.month, dt.day, dt.hour, dt.minute, dt.second, dt.microsecond>>

RECURSIVE TupleLess(_, _)
TupleLess(a, b) ==
    IF a = <<>> THEN FALSE
    ELSE IF Head(a) # Head(b) THEN Head(a) < Head(b)
    ELSE TupleLess(Tail(a), Tail(b))

DtLess(a, b) == TupleLess(DtKey(a), DtKey(b))

DtLeq(a, b) == ~DtLess(b, a)

(***************************************************************************)
(* Timestamp codecs (utils/helpers.py).                                    *)
(***************************************************************************)
Epoch1601 == DateTime(1601, 1, 1, 0, 0, 0, 0)

Epoch1970 == DateTime(1970, 1, 1, 0, 0, 0, 0)

chrome_timestamp(dt) ==
    LET epoch_start == Epoch1601
        delta       == DeltaMicros(dt, epoch_start)
    IN  FloatToInt(FloatMulSmall(TotalSeconds(delta), 1000000))

\* datetime.timestamp() of a naive value on a host whose local time is
\* utcoffset seconds ahead of UTC: mktime as an integer, plus microsecond / 1e6
Timestamp(dt, utcoffset) ==
    LET s == IntSub(DeltaSeconds([dt EXCEPT !.microsecond = 0], Epoch1970),
                    IntFromSmall(utcoffset))
    IN  FloatAdd(FloatFromInt(s),
                 FloatTrueDiv(IntFromSmall(dt.microsecond), 1000000))

\* datetime.timestamp() of a naive value raises ValueError when a local time
\* it computes on the way leaves the years 1..9999: the value shifted by the
\* host's offset, or the value a day earlier
TimestampRaises(dt, utcoffset) ==
    LET s     == SecondOfDay(dt) + utcoffset
        shift == IF s >= 86400 THEN 1 ELSE IF s < 0 THEN -1 ELSE 0
        day   == ToOrdinal(dt) + shift
    IN  \/ day > ToOrdinal(DateTime(9999, 12, 31, 0, 0, 0, 0))
        \/ day < 1
        \/ ToOrdinal(dt) < 2

firefox_timestamp(dt, utcoffset) ==
    FloatToInt(FloatMulSmall(Timestamp(dt, utcoffset), 1000000))

(***************************************************************************)
(* Text.  A Python str is a sequence of tokens; the separators the code    *)
(* splits on ("." and "//") are tokens of their own, and no other token    *)
(* contains them.                                                          *)
(***************************************************************************)
RECURSIVE Split(_, _)
Split(s, sep) ==
    IF \A i \in 1..Len(s) : s[i] # sep THEN <<s>>
    ELSE LET k == CHOOSE i \in 1..Len(s) :
                      s[i] = sep /\ \A j \in 1..(i - 1) : s[j] # sep
         IN  <<SubSeq(s, 1, k - 1)>> \o Split(SubSeq(s, k + 1, Len(s)), sep)

RECURSIVE Join(_, _)
Join(parts, sep) ==
    IF parts = <<>> THEN <<>>
    ELSE IF Len(parts) = 1 THEN parts[1]
    ELSE parts[1] \o <<sep>> \o Join(Tail(parts), sep)

Reverse(q) == [i \in 1..Len(q) |-> q[Len(q) + 1 - i]]

\* key in s
IsInfix(key, s) ==
    \E i \in 0..(Len(s) - Len(key)) : SubSeq(s, i + 1, i + Len(key)) = key

Range(q) == {q[i] : i \in 1..Len(q)}

Host2(a, b) == <<a, ".", b>>

Host3(a, b, c) == <<a, ".", b, ".", c>>

(***************************************************************************)
(* Configuration (config.py) and the fixed tables of browser_data.py.      *)
(***************************************************************************)
USER_NAME == "John Mathew"

USER_EMAIL == "john.mathew@beingMalicious.com"

USER_USERNAME == "jmathew"

COMMON_WEBSITES ==
    [work          |-> <<Host2("github", "com"), Host2("stackoverflow", "com"),
                         Host3("docs", "microsoft", "com"), Host3("aws", "amazon", "com"),
                         Host2("gitlab", "com"), Host2("jenkins", "io"),
                         Host2("docker", "com"), Host2("kubernetes", "io")>>,
     social        |-> <<Host2("linkedin", "com"), Host2("twitter", "com"),
                         Host2("reddit", "com"), Host2("facebook", "com")>>,
     news          |-> <<Host3("news", "ycombinator", "com"), Host2("techcrunch", "com"),
                         Host2("arstechnica", "com"), Host2("theverge", "com"),
                         Host2("wired", "com")>>,
     finance       |-> <<Host2("chase", "com"), Host2("wellsfargo", "com"),
                         Host2("mint", "com"), Host2("robinhood", "com"),
                         Host2("fidelity", "com"), Host2("vanguard", "com")>>,
     shopping      |-> <<Host2("amazon", "com"), Host2("ebay", "com"),
                         Host2("walmart", "com"), Host2("target", "com"),
                         Host2("bestbuy", "com")>>,
     entertainment |-> <<Host2("youtube", "com"), Host2("netflix", "com"),
                         Host2("spotify", "com"), Host2("reddit", "com"),
                         Host2("twitch", "tv")>>,
     email         |-> <<Host2("gmail", "com"), Host2("outlook", "com"),
                         Host2("yahoo", "com")>>]

site_weights ==
    [work |-> 35, social |-> 15, news |-> 20, finance |-> 10, shopping |-> 10,
     entertainment |-> 8, email |-> 2]

paths ==
    << <<>>, <<"/dashboard">>, <<"/search?q=python+tutorial">>, <<"/docs">>,
       <<"/settings">>, <<"/profile">>, <<"/notifications">>, <<"/about">> >>

visit_count_choices == <<1, 2, 3, 5, 10>>

visit_count_weights == <<50, 25, 15, 7, 3>>

titles ==
    << [key |-> Host2("github", "com"),        title |-> <<"GitHub: Where the world builds software">>],
       [key |-> Host2("stackoverflow", "com"), title |-> <<"Stack Overflow - Where Developers Learn">>],
       [key |-> Host2("linkedin", "com"),      title |-> <<"LinkedIn: Log In or Sign Up">>],
       [key |-> Host2("amazon", "com"),        title |-> <<"Amazon.com: Online Shopping">>],
       [key |-> Host2("youtube", "com"),       title |-> <<"YouTube">>],
       [key |-> Host2("gmail", "com"),         title |-> <<"Gmail - Email by Google">>],
       [key |-> Host2("netflix", "com"),       title |-> <<"Netflix - Watch TV Shows Online">>],
       [key |-> Host2("reddit", "com"),        title |-> <<"Reddit - Dive into anything">>] >>

\* str.capitalize() of the host labels that can reach the generic title
Capitalize(label) ==
    LET table == [docs |-> "Docs", gitlab |-> "Gitlab", jenkins |-> "Jenkins",
                  docker |-> "Docker", kubernetes |-> "Kubernetes",
                  twitter |-> "Twitter", facebook |-> "Facebook", news |-> "News",
                  techcrunch |-> "Techcrunch", arstechnica |-> "Arstechnica",
                  theverge |-> "Theverge", wired |-> "Wired", chase |-> "Chase",
                  wellsfargo |-> "Wellsfargo", mint |-> "Mint",
                  robinhood |-> "Robinhood", fidelity |-> "Fidelity",
                  vanguard |-> "Vanguard", ebay |-> "Ebay", walmart |-> "Walmart",
                  target |-> "Target", bestbuy |-> "Bestbuy", spotify |-> "Spotify",
                  twitch |-> "Twitch", outlook |-> "Outlook", yahoo |-> "Yahoo"]
    IN  [i \in 1..Len(label) |-> table[label[i]]]

(***************************************************************************)
(* Activity timeline synthesizer (BrowserDataGenerator).                   *)
(***************************************************************************)
_generate_page_title(site, path) ==
    LET hits == {i \in 1..Len(titles) : IsInfix(titles[i].key, site)}
    IN  IF hits # {}
        THEN titles[CHOOSE i \in hits : \A j \in hits : i <= j].title
        ELSE Capitalize(Split(site, ".")[1]) \o <<" - Home">>

\* random_date(start_date, end_date) when random.randrange(days_between)
\* returns random_days
\* a variant of random_date: the days are counted from end_date
DaysAfterEnd(start_date, end_date, random_days) ==
    DtPlusDays(end_date, random_days)

random_date(start_date, end_date, random_days) ==
    DtPlusDays(start_date, random_days)

\* a variant of SortByVisitTime: the history.sort(...) line is missing
Unsorted(h) == h

\* history.sort(key=lambda x: x["visit_time"]): a stable sort
RECURSIVE InsertByVisitTime(_, _)
InsertByVisitTime(sorted, x) ==
    IF sorted = <<>> THEN <<x>>
    ELSE LET last == sorted[Len(sorted)]
         IN  IF DtLeq(last.visit_time, x.visit_time) THEN Append(sorted, x)
             ELSE Append(InsertByVisitTime(SubSeq(sorted, 1, Len(sorted) - 1), x), last)

RECURSIVE SortByVisitTime(_)
SortByVisitTime(h) ==
    IF h = <<>> THEN <<>>
    ELSE InsertByVisitTime(SortByVisitTime(SubSeq(h, 1, Len(h) - 1)), h[Len(h)])

\* a variant of TypedCount: the threshold is compared with >= instead of >
TypedFromFive(visit_count) == IF visit_count >= 5 THEN 1 ELSE 0

\* the typed_count expression of the appended entry
TypedCount(visit_count) == IF visit_count > 5 THEN 1 ELSE 0

\* one iteration of the loop: draw is the outcome of the iteration's random
\* choices [category, site, path, random_days, visit_count]
HistoryEntry(start_date, end_date, draw) ==
    [url         |-> <<"https:", "//">> \o draw.site \o draw.path,
     title       |-> _generate_page_title(draw.site, draw.path),
     visit_time  |-> random_date(start_date, end_date, draw.random_days),
     visit_count |-> draw.visit_count,
     typed_count |-> TypedCount(draw.visit_count)]

\* the random outcomes one loop iteration can have
IsPossibleDraw(start_date, end_date, draw) ==
    /\ draw.category \in DOMAIN site_weights
    /\ site_weights[draw.category] > 0
    /\ draw.site \in Range(COMMON_WEBSITES[draw.category])
    /\ draw.path \in Range(paths)
    /\ draw.random_days \in 0..(ToOrdinal(end_date) - ToOrdinal(start_date) - 1)
    /\ \E j \in 1..Len(visit_count_choices) :
           visit_count_weights[j] > 0 /\ draw.visit_count = visit_count_choices[j]

\* generate_browsing_history(num_entries) called at time now with the random
\* outcomes draws[1..num_entries]
generate_browsing_history(num_entries, now, draws) ==
    LET end_date   == now
        start_date == DtPlusDays(end_date, -90)
        history    == [i \in 1..num_entries |->
                          HistoryEntry(start_date, end_date, draws[i])]
    IN  SortByVisitTime(history)

\* the same with the imported COMMON_WEBSITES as a parameter: the iteration
\* whose category has no site list (KeyError) or an empty one (IndexError
\* from random.choice) raises, and the events made so far are dropped
BrowsingHistoryFrom(websites, num_entries, now, draws) ==
    LET end_date   == now
        start_date == DtPlusDays(end_date, -90)
        failing    == {i \in 1..num_entries :
                          \/ draws[i].category \notin DOMAIN websites
                          \/ websites[draws[i].category] = <<>>}
        first      == CHOOSE i \in failing : \A j \in failing : i <= j
    IN  IF failing # {}
        THEN [raised |-> TRUE, appended |-> first - 1, history |-> <<>>]
        ELSE [raised   |-> FALSE,
              appended |-> num_entries,
              history  |-> SortByVisitTime([i \in 1..num_entries |->
                               HistoryEntry(start_date, end_date, draws[i])])]

(***************************************************************************)
(* Files.  The file system maps the paths of the existing files to their   *)
(* contents; a path is the sequence of its components.  An operation that  *)
(* touches the file system takes the fault it meets ("none", or the step   *)
(* at which the operating system raises an error) and returns the file     *)
(* system it leaves, whether it raised, and the paths it wrote.            *)
(***************************************************************************)
WriteFile(fsys, path, content) == (path :> content) @@ fsys

RemoveFile(fsys, path) == [q \in DOMAIN fsys \ {path} |-> fsys[q]]

Exists(fsys, path) == path \in DOMAIN fsys

\* sqlite3.connect() leaves a zero-byte file until the first statement runs
ZeroByteFile == [kind |-> "empty"]

\* a variant of _build_profile_paths: Edge uses the profile directory of
\* Chrome
SharedChromiumProfile ==
    [chrome  |-> <<"appdata_local", "Google", "Chrome", "User Data", "Default">>,
     edge    |-> <<"appdata_local", "Google", "Chrome", "User Data", "Default">>,
     firefox |-> <<"appdata_roaming", "Mozilla", "Firefox", "Profiles",
                   "jmathew.default-release">>]

_build_profile_paths ==
    [chrome  |-> <<"appdata_local", "Google", "Chrome", "User Data", "Default">>,
     edge    |-> <<"appdata_local", "Microsoft", "Edge", "User Data", "Default">>,
     firefox |-> <<"appdata_roaming", "Mozilla", "Firefox", "Profiles",
                   "jmathew.default-release">>]

DbFaults == {"db_mkdir", "db_unlink", "db_connect", "db_create", "db_insert"}

SummaryFaults == {"summary_mkdir", "summary_open", "summary_write"}

(***************************************************************************)
(* Store encoders.                                                         *)
(***************************************************************************)
ChromiumSiteRow(idx, entry, visit_ts) ==
    [id |-> idx, url |-> entry.url, title |-> entry.title,
     visit_count |-> entry.visit_count, typed_count |-> entry.typed_count,
     last_visit_time |-> visit_ts, hidden |-> 0]

\* a variant of ChromiumVisitRef: the reference counts the rows from zero
ZeroBasedVisitRef(idx, entry) == idx - 1

\* visits.url: the id of the urls row the same iteration inserted
ChromiumVisitRef(idx, entry) == idx

ChromiumVisitRow(idx, entry, visit_ts, duration) ==
    [id |-> idx, url |-> ChromiumVisitRef(idx, entry), visit_time |-> visit_ts,
     from_visit |-> 0, transition |-> 805306368, segment_id |-> "NULL",
     visit_duration |-> duration * 1000000]

\* a variant of ChromiumRows: the loop enumerates the timeline from its
\* latest event to its earliest
NewestFirstRows(history, durations) ==
    LET newest == [idx \in 1..Len(history) |-> history[Len(history) + 1 - idx]]
        ts     == [idx \in 1..Len(history) |-> chrome_timestamp(newest[idx].visit_time)]
    IN  [kind   |-> "chromium",
         urls   |-> [idx \in 1..Len(history) |->
                        ChromiumSiteRow(idx, newest[idx], ts[idx])],
         visits |-> [idx \in 1..Len(history) |->
                        ChromiumVisitRow(idx, newest[idx], ts[idx], durations[idx])]]

\* the rows the INSERT loop adds to urls and visits; durations[i] is the
\* outcome of random.randint(5, 180) in iteration i
ChromiumRows(history, durations) ==
    LET ts == [idx \in 1..Len(history) |-> chrome_timestamp(history[idx].visit_time)]
    IN  [kind   |-> "chromium",
         urls   |-> [idx \in 1..Len(history) |->
                        ChromiumSiteRow(idx, history[idx], ts[idx])],
         visits |-> [idx \in 1..Len(history) |->
                        ChromiumVisitRow(idx, history[idx], ts[idx], durations[idx])]]

\* a variant of _write_chromium_history_db: a store that exists is opened
\* and added to instead of being deleted first
AppendsToExistingStore(fsys, history, profile_path, filename, durations, fault) ==
    LET db_path == profile_path \o <<filename>>
        rows    == ChromiumRows(history, durations)
        old     == IF Exists(fsys, db_path) /\ fsys[db_path].kind = "chromium"
                   THEN fsys[db_path] ELSE ChromiumRows(<<>>, <<>>)
    IN  IF fault \in DbFaults
        THEN [fs |-> fsys, raised |-> TRUE, wrote |-> {}]
        ELSE [fs |-> WriteFile(fsys, db_path,
                               [kind   |-> "chromium",
                                urls   |-> old.urls \o rows.urls,
                                visits |-> old.visits \o rows.visits]),
              raised |-> FALSE, wrote |-> {db_path}]

_write_chromium_history_db(fsys, history, profile_path, filename, durations, fault) ==
    LET db_path  == profile_path \o <<filename>>
        unlinked == RemoveFile(fsys, db_path)
    IN  IF fault = "db_mkdir" \/ (fault = "db_unlink" /\ Exists(fsys, db_path))
        THEN [fs |-> fsys, raised |-> TRUE, wrote |-> {}]
        ELSE IF fault = "db_connect"
        THEN [fs |-> unlinked, raised |-> TRUE, wrote |-> {}]
        ELSE IF fault = "db_create"
        THEN [fs |-> WriteFile(unlinked, db_path, ZeroByteFile),
              raised |-> TRUE, wrote |-> {db_path}]
        ELSE IF fault = "db_insert"
        THEN [fs |-> WriteFile(unlinked, db_path, ChromiumRows(<<>>, <<>>)),
              raised |-> TRUE, wrote |-> {db_path}]
        ELSE [fs |-> WriteFile(unlinked, db_path, ChromiumRows(history, durations)),
              raised |-> FALSE, wrote |-> {db_path}]

\* ".".join(entry["url"].split("//")[-1].split(".")[::-1])
RevHost(url) ==
    LET parts == Split(url, "//")
    IN  Join(Reverse(Split(parts[Len(parts)], ".")), ".")

FirefoxSiteRow(idx, entry, visit_ts) ==
    [id |-> idx, url |-> entry.url, title |-> entry.title,
     rev_host |-> RevHost(entry.url), visit_count |-> entry.visit_count,
     hidden |-> 0, typed |-> entry.typed_count,
     frecency |-> entry.visit_count * 100, last_visit_date |-> visit_ts]

\* moz_historyvisits.place_id: the id of the moz_places row the same
\* iteration inserted
FirefoxVisitRef(idx, entry) == idx

FirefoxVisitRow(idx, entry, visit_ts) ==
    [id |-> idx, from_visit |-> 0, place_id |-> FirefoxVisitRef(idx, entry),
     visit_date |-> visit_ts, visit_type |-> 1, session |-> 0]

FirefoxRows(history, utcoffset) ==
    LET ts == [idx \in 1..Len(history) |->
                  firefox_timestamp(history[idx].visit_time, utcoffset)]
    IN  [kind              |-> "firefox",
         moz_places        |-> [idx \in 1..Len(history) |->
                                   FirefoxSiteRow(idx, history[idx], ts[idx])],
         moz_historyvisits |-> [idx \in 1..Len(history) |->
                                   FirefoxVisitRow(idx, history[idx], ts[idx])]]

_write_firefox_history_db(fsys, history, profile_path, utcoffset, fault) ==
    LET db_path  == profile_path \o <<"places.sqlite">>
        unlinked == RemoveFile(fsys, db_path)
    IN  IF fault = "db_mkdir" \/ (fault = "db_unlink" /\ Exists(fsys, db_path))
        THEN [fs |-> fsys, raised |-> TRUE, wrote |-> {}]
        ELSE IF fault = "db_connect"
        THEN [fs |-> unlinked, raised |-> TRUE, wrote |-> {}]
        ELSE IF fault = "db_create"
        THEN [fs |-> WriteFile(unlinked, db_path, ZeroByteFile),
              raised |-> TRUE, wrote |-> {db_path}]
        ELSE IF fault = "db_insert"
        THEN [fs |-> WriteFile(unlinked, db_path, FirefoxRows(<<>>, utcoffset)),
              raised |-> TRUE, wrote |-> {db_path}]
        ELSE [fs |-> WriteFile(unlinked, db_path, FirefoxRows(history, utcoffset)),
              raised |-> FALSE, wrote |-> {db_path}]

(***************************************************************************)
(* Summary writer.                                                         *)
(***************************************************************************)
\* a variant of LastN: the slice starts one event earlier, history[-(n + 1):]
OneMoreThanN(q, n) == IF Len(q) <= n + 1 THEN q ELSE SubSeq(q, Len(q) - n, Len(q))

\* history[-n:]
LastN(q, n) == IF Len(q) <= n THEN q ELSE SubSeq(q, Len(q) - n + 1, Len(q))

\* visit_time.strftime('%Y-%m-%d %H:%M:%S')
StrfTime(dt) == <<dt.year, dt.month, dt.day, dt.hour, dt.minute, dt.second>>

SummaryEntry(entry) ==
    [time |-> StrfTime(entry.visit_time), title |-> entry.title,
     url |-> entry.url, visits |-> entry.visit_count]

\* a variant of SummaryEntries: the slice is history[:50] instead of
\* history[-50:]
OldestEntries(history) ==
    [i \in 1..(IF Len(history) <= SummaryTail THEN Len(history) ELSE SummaryTail) |->
        SummaryEntry(history[i])]

SummaryEntries(history) ==
    LET shown == LastN(history, SummaryTail)
    IN  [i \in 1..Len(shown) |-> SummaryEntry(shown[i])]

\* a variant of _write_history_summary: a summary that exists is kept
KeepExistingSummary(fsys, browser_label, history, summary_dir, fault) ==
    LET summary_file == summary_dir \o <<"History_Summary.txt">>
        content == [kind    |-> "text",
                    header  |-> <<browser_label, USER_NAME>>,
                    entries |-> SummaryEntries(history)]
    IN  IF fault \in {"summary_mkdir", "summary_open"}
        THEN [fs |-> fsys, raised |-> TRUE, wrote |-> {}]
        ELSE IF Exists(fsys, summary_file)
        THEN [fs |-> fsys, raised |-> FALSE, wrote |-> {}]
        ELSE IF fault = "summary_write"
        THEN [fs |-> WriteFile(fsys, summary_file, ZeroByteFile),
              raised |-> TRUE, wrote |-> {summary_file}]
        ELSE [fs |-> WriteFile(fsys, summary_file, content),
              raised |-> FALSE, wrote |-> {summary_file}]

_write_history_summary(fsys, browser_label, history, summary_dir, fault) ==
    LET summary_file == summary_dir \o <<"History_Summary.txt">>
        content == [kind    |-> "text",
                    header  |-> <<browser_label, USER_NAME>>,
                    entries |-> SummaryEntries(history)]
    IN  IF fault \in {"summary_mkdir", "summary_open"}
        THEN [fs |-> fsys, raised |-> TRUE, wrote |-> {}]
        ELSE IF fault = "summary_write"
        THEN [fs |-> WriteFile(fsys, summary_file, ZeroByteFile),
              raised |-> TRUE, wrote |-> {summary_file}]
        ELSE [fs |-> WriteFile(fsys, summary_file, content),
              raised |-> FALSE, wrote |-> {summary_file}]

(***************************************************************************)
(* Text files.  fault is "none" or the step of the write that fails:       *)
(* "mkdir" (the parent directory cannot be made), "open" (the file is left *)
(* as it was) or "write" (the file is left truncated).                     *)
(***************************************************************************)
\* Path.write_text(content)
write_text(fsys, path, content, fault) ==
    IF fault = "open"
    THEN [fs |-> fsys, raised |-> TRUE, wrote |-> {}]
    ELSE IF fault = "write"
    THEN [fs |-> WriteFile(fsys, path, ZeroByteFile), raised |-> TRUE, wrote |-> {path}]
    ELSE [fs |-> WriteFile(fsys, path, content), raised |-> FALSE, wrote |-> {path}]

write_text_file(fsys, path, content, fault) ==
    IF fault = "mkdir"
    THEN [fs |-> fsys, raised |-> TRUE, wrote |-> {}]
    ELSE write_text(fsys, path, content, fault)

\* the fault a step meets at one of its writes
FaultAt(fault, stage) == IF fault.stage = stage THEN fault.kind ELSE "none"

NoFault == [stage |-> "none", kind |-> "none"]

\* two writes in a row: the second happens unless the first raised
ThenWrite(first, second) ==
    IF first.raised THEN first
    ELSE [fs |-> second.fs, raised |-> second.raised,
          wrote |-> first.wrote \cup second.wrote]

(***************************************************************************)
(* Credential derivation and the login files.                              *)
(***************************************************************************)
\* the items of the dict, in its order
FAKE_CREDENTIALS ==
    << [site |-> Host2("github", "com"),
        creds |-> [username |-> USER_USERNAME, email |-> USER_EMAIL, password |-> "SecureP@ss123!"]],
       [site |-> Host2("gitlab", "com"),
        creds |-> [username |-> USER_USERNAME, email |-> USER_EMAIL, password |-> "GitL@b2024!"]],
       [site |-> Host2("gmail", "com"),
        creds |-> [email |-> USER_EMAIL, password |-> "Gm@ilPass456"]],
       [site |-> Host2("linkedin", "com"),
        creds |-> [email |-> USER_EMAIL, password |-> "LinkedIn#789"]],
       [site |-> Host2("amazon", "com"),
        creds |-> [email |-> USER_EMAIL, password |-> "Am@z0nSecure"]],
       [site |-> Host2("chase", "com"),
        creds |-> [username |-> USER_USERNAME, password |-> "Ch@seBank999"]],
       [site |-> Host2("fidelity", "com"),
        creds |-> [username |-> USER_USERNAME, password |-> "Invest$2024"]],
       [site |-> Host2("zoom", "us"),
        creds |-> [email |-> USER_EMAIL, password |-> "Zo0m!Meeting"]],
       [site |-> Host2("slack", "com"),
        creds |-> [email |-> USER_EMAIL, password |-> "Sl@ckWork123"]],
       [site |-> Host2("office", "com"),
        creds |-> [email |-> USER_EMAIL, password |-> "Office365@!"]],
       [site |-> Host2("dropbox", "com"),
        creds |-> [email |-> USER_EMAIL, password |-> "Dr0pb0x#Secure"]],
       [site |-> Host2("docker", "com"),
        creds |-> [username |-> USER_USERNAME, email |-> USER_EMAIL, password |-> "D0cker!Hub"]],
       [site |-> Host3("aws", "amazon", "com"),
        creds |-> [username |-> USER_USERNAME, email |-> USER_EMAIL, password |-> "AWS@ccess2024"]],
       [site |-> Host2("spotify", "com"),
        creds |-> [email |-> USER_EMAIL, password |-> "Sp0tify#Music"]],
       [site |-> Host2("netflix", "com"),
        creds |-> [email |-> USER_EMAIL, password |-> "Netfl1x!Stream"]] >>

\* dict.get(key, default)
Get(d, key, default) == IF key \in DOMAIN d THEN d[key] ELSE default

\* a variant of PasswordEntry: the email is preferred to the username
EmailFirstEntry(site, creds, draw) ==
    [url          |-> <<"https:", "//">> \o site,
     username     |-> Get(creds, "email", Get(creds, "username", "None")),
     password     |-> creds.password,
     date_created |-> DtPlusDays(draw.now, 0 - draw.days),
     times_used   |-> draw.times_used]

\* one iteration of the loop: draw is [now, days, times_used], the clock
\* reading and the outcomes of the two random.randint calls
\* a variant of PasswordEntry: the days are added to the clock reading
CreatedAfterNow(site, creds, draw) ==
    [url          |-> <<"https:", "//">> \o site,
     username     |-> Get(creds, "username", Get(creds, "email", "None")),
     password     |-> creds.password,
     date_created |-> DtPlusDays(draw.now, draw.days),
     times_used   |-> draw.times_used]

PasswordEntry(site, creds, draw) ==
    [url          |-> <<"https:", "//">> \o site,
     username     |-> Get(creds, "username", Get(creds, "email", "None")),
     password     |-> creds.password,
     date_created |-> DtPlusDays(draw.now, 0 - draw.days),
     times_used   |-> draw.times_used]

\* a variant of generate_saved_passwords: the entry replaces the list
\* instead of being appended to it
KeepsLastEntryOnly(draws) ==
    LET n == Len(FAKE_CREDENTIALS)
    IN  <<PasswordEntry(FAKE_CREDENTIALS[n].site, FAKE_CREDENTIALS[n].creds, draws[n])>>

generate_saved_passwords(draws) ==
    [i \in 1..Len(FAKE_CREDENTIALS) |->
        PasswordEntry(FAKE_CREDENTIALS[i].site, FAKE_CREDENTIALS[i].creds, draws[i])]

\* datetime.isoformat()
IsoFormat(d) ==
    IF d.microsecond = 0 THEN StrfTime(d) ELSE Append(StrfTime(d), d.microsecond)

\* strftime('%Y-%m-%d')
StrfDate(d) == <<d.year, d.month, d.day>>

\* the creds_json of generate_chrome_credentials and generate_edge_credentials
ChromiumLogins(passwords) ==
    [kind    |-> "chromium_logins",
     entries |-> [i \in 1..Len(passwords) |->
                     [origin_url   |-> passwords[i].url,
                      username     |-> passwords[i].username,
                      password     |-> passwords[i].password,
                      date_created |-> IsoFormat(passwords[i].date_created),
                      times_used   |-> passwords[i].times_used]]]

\* a variant of FirefoxLogins: the ids are the indices of enumerate, from 0,
\* and the counter is the number of logins
ZeroBasedLoginIds(passwords, utcoffset) ==
    [kind   |-> "firefox_logins",
     nextId |-> Len(passwords),
     logins |-> [i \in 1..Len(passwords) |->
                    LET created == firefox_timestamp(passwords[i].date_created, utcoffset)
                    IN  [id                  |-> i - 1,
                         hostname            |-> passwords[i].url,
                         httpRealm           |-> "None",
                         formSubmitURL       |-> passwords[i].url,
                         usernameField       |-> "username",
                         passwordField       |-> "password",
                         encryptedUsername   |-> passwords[i].username,
                         encryptedPassword   |-> passwords[i].password,
                         timeCreated         |-> created,
                         timePasswordChanged |-> created,
                         timesUsed           |-> passwords[i].times_used]]]

\* the creds_json of generate_firefox_credentials
FirefoxLogins(passwords, utcoffset) ==
    [kind   |-> "firefox_logins",
     nextId |-> Len(passwords) + 1,
     logins |-> [i \in 1..Len(passwords) |->
                    LET created == firefox_timestamp(passwords[i].date_created, utcoffset)
                    IN  [id                  |-> i,
                         hostname            |-> passwords[i].url,
                         httpRealm           |-> "None",
                         formSubmitURL       |-> passwords[i].url,
                         usernameField       |-> "username",
                         passwordField       |-> "password",
                         encryptedUsername   |-> passwords[i].username,
                         encryptedPassword   |-> passwords[i].password,
                         timeCreated         |-> created,
                         timePasswordChanged |-> created,
                         timesUsed           |-> passwords[i].times_used]]]

\* the text of a password summary; full tells whether the creation time is
\* shown with its time of day
PasswordSummary(browser_label, passwords, full) ==
    [kind    |-> "text",
     header  |-> <<browser_label, USER_NAME, USER_EMAIL>>,
     total   |-> Len(passwords),
     entries |-> [i \in 1..Len(passwords) |->
                     [url      |-> passwords[i].url,
                      username |-> passwords[i].username,
                      password |-> passwords[i].password,
                      created  |-> IF full THEN StrfTime(passwords[i].date_created)
                                   ELSE StrfDate(passwords[i].date_created),
                      used     |-> passwords[i].times_used]]]

\* the common shape of the three credential handlers: logins is the document
\* written to the profile, summary the text written to output_dir
CredentialsHandler(fsys, passwords, login_path, logins, summary_path, summary, fault) ==
    LET profile == write_text_file(fsys, login_path, logins, FaultAt(fault, "login"))
        text    == write_text(profile.fs, summary_path, summary, FaultAt(fault, "summary"))
        both    == ThenWrite(profile, text)
    IN  [passwords |-> passwords, fs |-> both.fs, raised |-> both.raised,
         wrote |-> both.wrote]

generate_chrome_credentials(fsys, output_dir, inp, offset) ==
    LET passwords == generate_saved_passwords(inp.draws)
    IN  CredentialsHandler(fsys, passwords,
                           _build_profile_paths["chrome"] \o <<"Login Data.json">>,
                           ChromiumLogins(passwords),
                           output_dir \o <<"Saved_Passwords.txt">>,
                           PasswordSummary("Google Chrome", passwords, FALSE), inp.fault)

\* a variant of generate_firefox_credentials: generate_saved_passwords is
\* called a second time for the summary, and its random outcomes come in
\* another order
SummaryOfSecondCall(fsys, output_dir, inp, offset) ==
    LET passwords == generate_saved_passwords(inp.draws)
        again     == generate_saved_passwords(Reverse(inp.draws))
    IN  CredentialsHandler(fsys, passwords,
                           _build_profile_paths["firefox"] \o <<"logins.json">>,
                           FirefoxLogins(passwords, offset),
                           output_dir \o <<"Saved_Passwords_Firefox.txt">>,
                           PasswordSummary("Mozilla Firefox", again, TRUE), inp.fault)

generate_firefox_credentials(fsys, output_dir, inp, offset) ==
    LET passwords == generate_saved_passwords(inp.draws)
    IN  CredentialsHandler(fsys, passwords,
                           _build_profile_paths["firefox"] \o <<"logins.json">>,
                           FirefoxLogins(passwords, offset),
                           output_dir \o <<"Saved_Passwords_Firefox.txt">>,
                           PasswordSummary("Mozilla Firefox", passwords, TRUE), inp.fault)

generate_edge_credentials(fsys, output_dir, inp, offset) ==
    LET passwords == generate_saved_passwords(inp.draws)
    IN  CredentialsHandler(fsys, passwords,
                           _build_profile_paths["edge"] \o <<"Login Data.json">>,
                           ChromiumLogins(passwords),
                           output_dir \o <<"Saved_Passwords_Edge.txt">>,
                           PasswordSummary("Microsoft Edge", passwords, FALSE), inp.fault)

(***************************************************************************)
(* Cookie derivation.                                                      *)
(***************************************************************************)
\* the keys of COMMON_WEBSITES, in the order of the dict
Categories ==
    <<"work", "social", "news", "finance", "shopping", "entertainment", "email">>

cookie_types ==
    << <<"session_id", "Session identifier">>, <<"auth_token", "Authentication token">>,
       <<"user_prefs", "User preferences">>, <<"tracking_id", "Analytics tracking">>,
       <<"csrf_token", "CSRF protection">>, <<"language", "Language preference">>,
       <<"timezone", "Timezone setting">> >>

\* a variant of CookieEntry: the site is chosen from the first category's
\* list whatever the category
SiteOfFirstCategory(site_category, sites, draw) ==
    [domain         |-> <<".">> \o COMMON_WEBSITES[Categories[1]][draw.site],
     name           |-> cookie_types[draw.cookie][1],
     description    |-> cookie_types[draw.cookie][2],
     value          |-> draw.value,
     expirationDate |-> StrfDate(DtPlusDays(draw.now, 365)),
     secure         |-> TRUE,
     httpOnly       |-> TRUE]

\* one iteration of the loop: draw is [site, cookie, value, now], the indexes
\* the two random.choice calls pick, the random string and the clock reading
CookieEntry(site_category, sites, draw) ==
    [domain         |-> <<".">> \o sites[draw.site],
     name           |-> cookie_types[draw.cookie][1],
     description    |-> cookie_types[draw.cookie][2],
     value          |-> draw.value,
     expirationDate |-> StrfDate(DtPlusDays(draw.now, 365)),
     secure         |-> TRUE,
     httpOnly       |-> TRUE]

CookieEntries(draws) ==
    [i \in 1..Len(Categories) |->
        CookieEntry(Categories[i], COMMON_WEBSITES[Categories[i]], draws[i])]

\* inp is [now, draws, fault]
generate_cookies_file(fsys, browser_label, profile_dir, output_dir, inp) ==
    LET cookies == CookieEntries(inp.draws)
        content == [kind      |-> "text",
                    header    |-> <<browser_label, USER_NAME>>,
                    generated |-> StrfTime(inp.now),
                    entries   |-> cookies]
        cookie_profile_entries ==
            [kind    |-> "cookies",
             entries |-> [i \in 1..Len(cookies) |->
                             [domain         |-> cookies[i].domain,
                              name           |-> cookies[i].name,
                              value          |-> cookies[i].value,
                              expirationDate |-> cookies[i].expirationDate,
                              secure         |-> TRUE,
                              httpOnly       |-> TRUE]]]
        \* ensure_directory(output_dir), then cookies_info_file.write_text(content)
        info    == write_text_file(fsys, output_dir \o <<"Cookies_Info.txt">>, content,
                                   FaultAt(inp.fault, "info"))
        profile == write_text_file(info.fs, profile_dir \o <<"Cookies.json">>,
                                   cookie_profile_entries, FaultAt(inp.fault, "profile"))
        both    == ThenWrite(info, profile)
    IN  [cookies |-> cookies, fs |-> both.fs, raised |-> both.raised, wrote |-> both.wrote]

(***************************************************************************)
(* State.                                                                  *)
(***************************************************************************)
VARIABLES
    pc,         \* where the program is: [run, browser, step]
    fs,         \* the file system below the base path
    origin,     \* per history store and history summary on disk, the call
                \* of generate_browsing_history (its run and its number in
                \* the run) whose timeline the file was written from
    calls,      \* the calls made so far in the current run, in order
    ncalls,     \* handler calls made so far in the current run
    history,    \* the timeline last returned by generate_browsing_history
    utcoffset,  \* the host's offset from UTC, in seconds
    outcome,    \* per browser, how its latest history step ended
    dt,         \* codec input: a point in time
    stamp,      \* codec output
    process     \* the process of main.py: the stage of populate_all it is in,
                \* the stage its error report names, and its exit status

vars == <<pc, fs, origin, calls, ncalls, history, utcoffset, outcome, dt, stamp, process>>

At(run, browser, step) == [run |-> run, browser |-> browser, step |-> step]

NoOutcome == [Chrome |-> "none", Firefox |-> "none", Edge |-> "none"]

CallId(run, call) == [run |-> run, call |-> call]

NoStamp == [codec |-> "none", value |-> IntFromSmall(0), raised |-> FALSE]

\* no run of main.py has begun
NoProcess == [stage |-> "none", reported |-> "none", status |-> "none"]

\* a variant of Browsers: Edge is processed before Firefox
EdgeBeforeFirefox == <<"Chrome", "Edge", "Firefox">>

\* the order of the browsers dict of generate_all_browser_data
Browsers == <<"Chrome", "Firefox", "Edge">>

\* the labels and the profile keys the browsers dict gives the handlers
BrowserLabel(browser_name) ==
    [Chrome |-> "Google Chrome", Firefox |-> "Mozilla Firefox",
     Edge |-> "Microsoft Edge"][browser_name]

ProfileKey(browser_name) ==
    [Chrome |-> "chrome", Firefox |-> "firefox", Edge |-> "edge"][browser_name]

\* self.base_path / "Documents" / f"Browser_Data_{browser_name}"
BrowserDir(browser_name) ==
    <<"home", "Documents",
      [Chrome |-> "Browser_Data_Chrome", Firefox |-> "Browser_Data_Firefox",
       Edge |-> "Browser_Data_Edge"][browser_name]>>

\* generators["credentials"](browser_dir)
CredentialsOf(browser_name, fsys, inp, offset) ==
    IF browser_name = "Chrome"
    THEN generate_chrome_credentials(fsys, BrowserDir("Chrome"), inp, offset)
    ELSE IF browser_name = "Firefox"
    THEN generate_firefox_credentials(fsys, BrowserDir("Firefox"), inp, offset)
    ELSE generate_edge_credentials(fsys, BrowserDir("Edge"), inp, offset)

(***************************************************************************)
(* Inputs: clock readings, random outcomes, faults.                        *)
(***************************************************************************)
Clock == {DateTime(2026, 11, 1, 15, 16, 42, 123457), DateTime(2024, 3, 30, 23, 59, 59, 0)}

Draw(category, site, path, random_days, visit_count) ==
    [category |-> category, site |-> site, path |-> path,
     random_days |-> random_days, visit_count |-> visit_count]

\* the outcomes of one loop iteration that the timeline and store checks use
StoreDraws ==
    {Draw("work",  Host2("github", "com"), <<>>, 0, 1),
     Draw("work",  Host2("github", "com"), <<>>, 1, 5),
     Draw("work",  Host2("github", "com"), <<"/dashboard">>, 0, 10),
     Draw("email", Host2("gmail", "com"), <<>>, 1, 10),
     Draw("email", Host2("gmail", "com"), <<>>, 89, 2),
     Draw("work",  Host3("docs", "microsoft", "com"), <<"/search?q=python+tutorial">>, 0, 3)}

\* the outcomes of the loop of one call that the coordinator checks use: the
\* same site on the same day throughout, or another site on a later day in
\* every other iteration
RunDraws(n) ==
    {[i \in 1..n |-> Draw("work", Host2("github", "com"), <<>>, 0, 1)],
     [i \in 1..n |-> IF i % 2 = 1
                     THEN Draw("email", Host2("gmail", "com"), <<"/dashboard">>, 1, 10)
                     ELSE Draw("work", Host2("github", "com"), <<>>, 0, 1)]}

\* outcomes of the random.randint(5, 180) of the rows of one store
DurationDraws(n) ==
    {[i \in 1..n |-> 5], [i \in 1..n |-> 180],
     [i \in 1..n |-> IF i % 2 = 1 THEN 17 ELSE 180]}

UtcOffsets == {0, 3600, -18000}

\* the offsets the store checks use
StoreOffsets == {0, -18000}

\* what one call of a history handler meets: the clock, the random outcomes
\* of the synthesizer and of the encoder, and the fault (if any)
HistoryInputs(clock, draws, durations, faults) ==
    {inp \in [now : clock, draws : draws, durations : durations, fault : faults] :
        /\ \A i \in DOMAIN inp.draws :
               IsPossibleDraw(DtPlusDays(inp.now, 0 - 90), inp.now, inp.draws[i])
        /\ \A i \in DOMAIN inp.durations : inp.durations[i] \in 5..180}

(***************************************************************************)
(* Per-browser history handlers: what one call does to the file system,    *)
(* and the calls it makes.                                                 *)
(***************************************************************************)
SynthCall(browser_name, result) ==
    [op |-> "generate_browsing_history", by |-> browser_name, path |-> <<>>,
     timeline |-> result]

WriterCall(op, browser_name, path, timeline) ==
    [op |-> op, by |-> browser_name, path |-> path, timeline |-> timeline]

\* the common shape of the three history handlers: generated is what
\* generate_browsing_history returned, encoded the timeline given to the store
\* encoder (db is what that call did) and summarized the timeline given to
\* _write_history_summary
HistoryHandler(browser_name, generated, encoded, db, summarized, profile_dir, output_dir, label, fault) ==
    LET sm == _write_history_summary(db.fs, label, summarized, output_dir, fault)
    IN  [history |-> generated,
         fs      |-> IF db.raised THEN db.fs ELSE sm.fs,
         raised  |-> db.raised \/ sm.raised,
         wrote   |-> IF db.raised THEN db.wrote ELSE db.wrote \cup sm.wrote,
         calls   |-> <<SynthCall(browser_name, generated),
                       WriterCall("store_encoder", browser_name, profile_dir, encoded)>>
                     \o (IF db.raised THEN <<>>
                         ELSE <<WriterCall("_write_history_summary", browser_name,
                                           output_dir, summarized)>>)]

generate_chrome_history(fsys, output_dir, num_entries, inp, offset) ==
    LET hist        == generate_browsing_history(num_entries, inp.now, inp.draws)
        profile_dir == _build_profile_paths["chrome"]
        history_db  == _write_chromium_history_db(fsys, hist, profile_dir, "History",
                                                  inp.durations, inp.fault)
    IN  HistoryHandler("Chrome", hist, hist, history_db, hist, profile_dir,
                       output_dir, "Google Chrome", inp.fault)

\* a variant of generate_firefox_history: the list is put most recent first
\* before the summary is written
SummaryOfReversed(fsys, output_dir, num_entries, inp, offset) ==
    LET hist        == generate_browsing_history(num_entries, inp.now, inp.draws)
        profile_dir == _build_profile_paths["firefox"]
        history_db  == _write_firefox_history_db(fsys, hist, profile_dir, offset,
                                                 inp.fault)
    IN  HistoryHandler("Firefox", hist, hist, history_db, Reverse(hist), profile_dir,
                       output_dir, "Mozilla Firefox", inp.fault)

generate_firefox_history(fsys, output_dir, num_entries, inp, offset) ==
    LET hist        == generate_browsing_history(num_entries, inp.now, inp.draws)
        profile_dir == _build_profile_paths["firefox"]
        history_db  == _write_firefox_history_db(fsys, hist, profile_dir, offset,
                                                 inp.fault)
    IN  HistoryHandler("Firefox", hist, hist, history_db, hist, profile_dir,
                       output_dir, "Mozilla Firefox", inp.fault)

\* a variant of generate_edge_history: the store is written to the profile
\* directory of Chrome
EdgeInChromeProfile(fsys, output_dir, num_entries, inp, offset) ==
    LET hist        == generate_browsing_history(num_entries, inp.now, inp.draws)
        profile_dir == _build_profile_paths["chrome"]
        history_db  == _write_chromium_history_db(fsys, hist, profile_dir, "History",
                                                  inp.durations, inp.fault)
    IN  HistoryHandler("Edge", hist, hist, history_db, hist, profile_dir,
                       output_dir, "Microsoft Edge", inp.fault)

generate_edge_history(fsys, output_dir, num_entries, inp, offset) ==
    LET hist        == generate_browsing_history(num_entries, inp.now, inp.draws)
        profile_dir == _build_profile_paths["edge"]
        history_db  == _write_chromium_history_db(fsys, hist, profile_dir, "History",
                                                  inp.durations, inp.fault)
    IN  HistoryHandler("Edge", hist, hist, history_db, hist, profile_dir,
                       output_dir, "Microsoft Edge", inp.fault)

(***************************************************************************)
(* The coordinator: runs of generate_all_browser_data against one base     *)
(* path.  A fault ends the run (the exception leaves the loop).            *)
(***************************************************************************)
RunClock == {DateTime(2026, 11, 1, 15, 16, 42, 123457)}

\* the faults a history step can meet
RunFaults == {"none"} \cup DbFaults \cup SummaryFaults

RunCredentialDraws ==
    [i \in 1..Len(FAKE_CREDENTIALS) |->
        [now |-> CHOOSE t \in RunClock : TRUE, days |-> 30 + ((i * 157) % 471),
         times_used |-> 5 + ((i * 7) % 96)]]

\* the faults of the credentials and cookies steps that the coordinator
\* checks explore: one that truncates the step's first file and one that
\* stops the step between its two files
CredentialFaults ==
    {NoFault, [stage |-> "login", kind |-> "write"], [stage |-> "summary", kind |-> "open"]}

RunCredentialInputs == [draws : {RunCredentialDraws}, fault : CredentialFaults]

RunCookieDraws ==
    [i \in 1..Len(Categories) |->
        [site |-> 1 + (i % 3), cookie |-> i, value |-> "k3Jx", now |-> CHOOSE t \in RunClock : TRUE]]

CookieFaults ==
    {NoFault, [stage |-> "info", kind |-> "write"], [stage |-> "profile", kind |-> "mkdir"]}

RunCookieInputs == [now : RunClock, draws : {RunCookieDraws}, fault : CookieFaults]

RunInputs ==
    HistoryInputs(RunClock, RunDraws(RunEntries), {[i \in 1..RunEntries |-> 5]}, RunFaults)

\* the steps of populate_all, in order: the methods its try block calls
Stages ==
    <<"create_base_directory_structure", "generate_all_browser_data",
      "generate_all_tax_documents", "generate_all_investment_documents",
      "generate_all_office_documents", "generate_all_personal_folders",
      "generate_all_credentials", "generate_all_application_data",
      "generate_all_enhanced_documents">>

StageNumber(stage) == CHOOSE k \in 1..Len(Stages) : Stages[k] = stage

\* the first file that each of the steps 3 to 9 writes
FirstFile ==
    [generate_all_tax_documents |->
         <<"home", "Desktop", "Tax Documents", "2022", "Form_1040_Federal_2022.pdf">>,
     generate_all_investment_documents |->
         <<"home", "Desktop", "Investments", "Investment_Statement_2022.xlsx">>,
     generate_all_office_documents |->
         <<"home", "Desktop", "Office", "Reports", "Q1_2024_Report.pdf">>,
     generate_all_personal_folders |->
         <<"home", "Desktop", "Personal", "Music", "My_Playlist.m3u">>,
     generate_all_credentials |->
         <<"home", "Documents", "Credentials", "Master_Credentials.txt">>,
     generate_all_application_data |->
         <<"home", "Downloads", "Installed_Applications.txt">>,
     generate_all_enhanced_documents |->
         <<"home", "Documents", "Contracts", "Employment_Contract_2020.txt">>]

\* the process is in populate_all, at the given step
Running(stage) == [stage |-> stage, reported |-> "none", status |-> "running"]

Init ==
    /\ pc = At(0, 0, "idle")
    /\ fs = <<>>
    /\ origin = <<>>
    /\ calls = <<>>
    /\ ncalls = 0
    /\ history = <<>>
    /\ utcoffset = 3600
    /\ outcome = NoOutcome
    /\ dt = Epoch1970
    /\ stamp = NoStamp
    /\ process = NoProcess

\* the main block creates the populator and calls populate_all, which creates
\* the base folders (step 1) and reaches generate_all_browser_data (step 2)
StartRun ==
    /\ pc.step \in {"idle", "exited"}
    /\ pc.run < MaxRuns
    /\ \E fault \in {"none", "base_mkdir"} :
           /\ pc' = IF fault = "none" THEN At(pc.run + 1, 1, "begin")
                    ELSE At(pc.run + 1, 0, "failed")
           /\ process' = Running(IF fault = "none" THEN Stages[2] ELSE Stages[1])
    /\ calls' = <<>>
    /\ ncalls' = 0
    /\ UNCHANGED <<fs, origin, history, utcoffset, outcome, dt, stamp>>

\* the head of the loop body: ensure_directory(browser_dir)
BeginBrowser ==
    /\ pc.step = "begin"
    /\ \E fault \in {"none", "dir_mkdir"} :
           pc' = At(pc.run, pc.browser, IF fault = "none" THEN "history" ELSE "failed")
    /\ UNCHANGED <<fs, origin, calls, ncalls, history, utcoffset, outcome, dt, stamp, process>>

\* a variant of RunStep: an exception of the handler is swallowed and the
\* loop body goes on
GoesOnAfterRaise(r, made, onward) ==
    /\ fs' = r.fs
    /\ ncalls' = ncalls + 1
    /\ calls' = calls \o made
    /\ pc' = onward
    /\ UNCHANGED <<utcoffset, dt, stamp, process>>

\* a step of the loop body, given what its handler does: an exception leaves
\* the loop, otherwise the body goes on at onward
RunStep(r, made, onward) ==
    /\ fs' = r.fs
    /\ ncalls' = ncalls + 1
    /\ calls' = calls \o made
    /\ pc' = IF r.raised THEN At(pc.run, pc.browser, "failed") ELSE onward
    /\ UNCHANGED <<utcoffset, dt, stamp, process>>

\* generators["history"](browser_dir)
RunHistory(r) ==
    /\ RunStep(r, r.calls, At(pc.run, pc.browser, "credentials"))
    /\ history' = r.history
    /\ outcome' = [outcome EXCEPT ![Browsers[pc.browser]] =
                       IF r.raised THEN "raised" ELSE "completed"]
    /\ origin' = [q \in (DOMAIN origin \cup r.wrote) \cap DOMAIN r.fs |->
                      IF q \in r.wrote THEN CallId(pc.run, ncalls + 1) ELSE origin[q]]

\* generators["credentials"](browser_dir)
RunCredentials(r) ==
    /\ RunStep(r, <<WriterCall("credentials", Browsers[pc.browser],
                               BrowserDir(Browsers[pc.browser]), <<>>)>>,
               At(pc.run, pc.browser, "cookies"))
    /\ UNCHANGED <<history, origin, outcome>>

ChromeHistory ==
    /\ pc.step = "history" /\ Browsers[pc.browser] = "Chrome"
    /\ \E inp \in RunInputs :
           RunHistory(generate_chrome_history(fs, BrowserDir("Chrome"), RunEntries,
                                              inp, utcoffset))

FirefoxHistory ==
    /\ pc.step = "history" /\ Browsers[pc.browser] = "Firefox"
    /\ \E inp \in RunInputs :
           RunHistory(generate_firefox_history(fs, BrowserDir("Firefox"), RunEntries,
                                               inp, utcoffset))

EdgeHistory ==
    /\ pc.step = "history" /\ Browsers[pc.browser] = "Edge"
    /\ \E inp \in RunInputs :
           RunHistory(generate_edge_history(fs, BrowserDir("Edge"), RunEntries,
                                            inp, utcoffset))

ChromeCredentials ==
    /\ pc.step = "credentials" /\ Browsers[pc.browser] = "Chrome"
    /\ \E inp \in RunCredentialInputs :
           RunCredentials(generate_chrome_credentials(fs, BrowserDir("Chrome"), inp,
                                                      utcoffset))

FirefoxCredentials ==
    /\ pc.step = "credentials" /\ Browsers[pc.browser] = "Firefox"
    /\ \E inp \in RunCredentialInputs :
           RunCredentials(generate_firefox_credentials(fs, BrowserDir("Firefox"), inp,
                                                       utcoffset))

EdgeCredentials ==
    /\ pc.step = "credentials" /\ Browsers[pc.browser] = "Edge"
    /\ \E inp \in RunCredentialInputs :
           RunCredentials(generate_edge_credentials(fs, BrowserDir("Edge"), inp,
                                                    utcoffset))

\* generators["cookies"](browser_dir), the last step of the loop body: the
\* loop goes on with the next browser, or generate_all_browser_data returns
Cookies ==
    /\ pc.step = "cookies"
    /\ LET browser_name == Browsers[pc.browser]
       IN  \E inp \in RunCookieInputs :
               RunStep(generate_cookies_file(fs, BrowserLabel(browser_name),
                                             _build_profile_paths[ProfileKey(browser_name)],
                                             BrowserDir(browser_name), inp),
                       <<WriterCall("cookies", browser_name, BrowserDir(browser_name), <<>>)>>,
                       IF pc.browser < Len(Browsers)
                       THEN At(pc.run, pc.browser + 1, "begin")
                       ELSE At(pc.run, pc.browser, "done"))
    /\ UNCHANGED <<history, origin, outcome>>

\* one of the steps 3 to 9 of populate_all, after generate_all_browser_data or
\* the step before it returned.  Of the files of the step, the first one is
\* followed; the fault explored stops the step at its first ensure_directory.
LaterStage ==
    /\ pc.step \in {"done", "later"}
    /\ LET k     == StageNumber(process.stage) + 1
           stage == Stages[k]
       IN  \E fault \in {"none", "mkdir"} :
               LET r == write_text_file(fs, FirstFile[stage],
                                        [kind |-> "document", by |-> stage], fault)
               IN  /\ fs' = r.fs
                   /\ pc' = At(pc.run, 0, IF r.raised THEN "failed"
                                          ELSE IF k = Len(Stages) THEN "populated"
                                          ELSE "later")
                   /\ process' = Running(stage)
    /\ UNCHANGED <<origin, calls, ncalls, history, utcoffset, outcome, dt, stamp>>

\* a variant of ExitWithError: the stores and summaries that the run wrote
\* are removed before the process exits
RemovesOutputOfRun ==
    /\ pc.step = "failed"
    /\ pc' = At(pc.run, pc.browser, "exited")
    /\ process' = [process EXCEPT !.reported = process.stage, !.status = "exit_1"]
    /\ LET kept == {p \in DOMAIN fs : p \notin DOMAIN origin \/ origin[p].run # pc.run}
       IN  /\ fs' = [p \in kept |-> fs[p]]
           /\ origin' = [p \in DOMAIN origin \cap kept |-> origin[p]]
    /\ UNCHANGED <<calls, ncalls, history, utcoffset, outcome, dt, stamp>>

\* a step raised: the except clause of populate_all prints the error and the
\* traceback, whose populate_all frame is the call of the step that raised,
\* and returns False; the main block exits with status 1
ExitWithError ==
    /\ pc.step = "failed"
    /\ pc' = At(pc.run, pc.browser, "exited")
    /\ process' = [process EXCEPT !.reported = process.stage, !.status = "exit_1"]
    /\ UNCHANGED <<fs, origin, calls, ncalls, history, utcoffset, outcome, dt, stamp>>

\* step 9 returned: populate_all prints the summary and returns True; the
\* main block prints the statistics and exits with status 0
ExitWithSuccess ==
    /\ pc.step = "populated"
    /\ pc' = At(pc.run, pc.browser, "exited")
    /\ process' = [process EXCEPT !.status = "exit_0"]
    /\ UNCHANGED <<fs, origin, calls, ncalls, history, utcoffset, outcome, dt, stamp>>

Next ==
    \/ StartRun
    \/ BeginBrowser
    \/ ChromeHistory
    \/ FirefoxHistory
    \/ EdgeHistory
    \/ ChromeCredentials
    \/ FirefoxCredentials
    \/ EdgeCredentials
    \/ Cookies
    \/ LaterStage
    \/ ExitWithError
    \/ ExitWithSuccess

Spec == Init /\ [][Next]_vars

(***************************************************************************)
(* The synthesizer and the encoders on their own: a timeline is generated  *)
(* (or the end-to-end scenario of the specification is taken) and then     *)
(* encoded by either encoder.                                              *)
(***************************************************************************)
ScenarioEntry(site, day, visit_count) ==
    [url         |-> site,
     title       |-> _generate_page_title(site, <<>>),
     visit_time  |-> DateTime(2024, 1, day, 9, 30, 0, 0),
     visit_count |-> visit_count,
     typed_count |-> TypedCount(visit_count)]

\* 3 events for "github.com" (counts 1, 2, 1) and 1 event for "gmail.com" (count 5)
ScenarioTimeline ==
    <<ScenarioEntry(Host2("github", "com"), 1, 1),
      ScenarioEntry(Host2("github", "com"), 2, 2),
      ScenarioEntry(Host2("gmail", "com"), 2, 5),
      ScenarioEntry(Host2("github", "com"), 3, 1)>>

InitStore ==
    /\ pc = At(0, 0, "start")
    /\ fs = <<>>
    /\ origin = <<>>
    /\ calls = <<>>
    /\ ncalls = 0
    /\ history = <<>>
    /\ utcoffset \in StoreOffsets
    /\ outcome = NoOutcome
    /\ dt = Epoch1970
    /\ stamp = NoStamp
    /\ process = NoProcess

Synthesize ==
    /\ pc.step = "start"
    /\ \E n \in 0..MaxEntries :
           \E inp \in HistoryInputs(Clock, [1..n -> StoreDraws], {<<>>}, {"none"}) :
               /\ history' = generate_browsing_history(n, inp.now, inp.draws)
               /\ calls' = <<[op |-> "generate_browsing_history", n |-> n, now |-> inp.now,
                              random_days |-> [i \in 1..n |-> inp.draws[i].random_days]]>>
    /\ ncalls' = ncalls + 1
    /\ pc' = At(0, 0, "timeline")
    /\ UNCHANGED <<fs, origin, utcoffset, outcome, dt, stamp, process>>

Scenario ==
    /\ pc.step = "start"
    /\ history' = ScenarioTimeline
    /\ pc' = At(0, 0, "timeline")
    /\ UNCHANGED <<fs, origin, calls, ncalls, utcoffset, outcome, dt, stamp, process>>

EncodeChromium ==
    /\ pc.step = "timeline"
    /\ \E durations \in DurationDraws(Len(history)) :
           LET r == _write_chromium_history_db(fs, history, _build_profile_paths["chrome"],
                                               "History", durations, "none")
           IN  /\ fs' = r.fs
               /\ origin' = [q \in DOMAIN r.fs |-> CallId(pc.run, ncalls)]
    /\ pc' = At(0, 0, "chromium")
    /\ UNCHANGED <<calls, ncalls, history, utcoffset, outcome, dt, stamp, process>>

EncodeFirefox ==
    /\ pc.step = "timeline"
    /\ LET r == _write_firefox_history_db(fs, history, _build_profile_paths["firefox"],
                                          utcoffset, "none")
       IN  /\ fs' = r.fs
           /\ origin' = [q \in DOMAIN r.fs |-> CallId(pc.run, ncalls)]
    /\ pc' = At(0, 0, "firefox")
    /\ UNCHANGED <<calls, ncalls, history, utcoffset, outcome, dt, stamp, process>>

NextStore == Synthesize \/ Scenario \/ EncodeChromium \/ EncodeFirefox

SpecStore == InitStore /\ [][NextStore]_vars

(***************************************************************************)
(* The codecs on their own.                                                *)
(***************************************************************************)
CodecInputs ==
    {DateTime(d[1], d[2], d[3], t[1], t[2], t[3], us) :
        d \in {<<1601, 1, 1>>, <<1969, 12, 31>>, <<1970, 1, 1>>, <<2024, 1, 1>>,
               <<2026, 11, 1>>, <<2171, 10, 8>>, <<9999, 12, 31>>},
        t \in {<<0, 0, 0>>, <<12, 34, 56>>, <<23, 59, 59>>},
        us \in (0..MaxMicro) \cup {500000, 999999}}

InitCodec ==
    /\ pc = At(0, 0, "codec")
    /\ fs = <<>>
    /\ origin = <<>>
    /\ calls = <<>>
    /\ ncalls = 0
    /\ history = <<>>
    /\ utcoffset \in UtcOffsets
    /\ outcome = NoOutcome
    /\ dt \in CodecInputs
    /\ stamp = NoStamp
    /\ process = NoProcess

ChromeStamp ==
    /\ stamp.codec = "none"
    /\ stamp' = [codec |-> "chrome", value |-> chrome_timestamp(dt), raised |-> FALSE]
    /\ UNCHANGED <<pc, fs, origin, calls, ncalls, history, utcoffset, outcome, dt, process>>

FirefoxStamp ==
    /\ stamp.codec = "none"
    /\ stamp' = IF TimestampRaises(dt, utcoffset)
                 THEN [codec |-> "firefox", value |-> IntFromSmall(0), raised |-> TRUE]
                 ELSE [codec |-> "firefox", value |-> firefox_timestamp(dt, utcoffset),
                       raised |-> FALSE]
    /\ UNCHANGED <<pc, fs, origin, calls, ncalls, history, utcoffset, outcome, dt, process>>

NextCodec == ChromeStamp \/ FirefoxStamp

SpecCodec == InitCodec /\ [][NextCodec]_vars

(***************************************************************************)
(* The derivations from the configuration on their own: one call of        *)
(* generate_saved_passwords, of generate_cookies_file or of                *)
(* generate_browsing_history against an empty base path; calls holds the   *)
(* call and what it returned.                                              *)
(***************************************************************************)
\* the outcomes of the two random.randint calls of each iteration
CredentialDraws ==
    {[i \in 1..Len(FAKE_CREDENTIALS) |->
         [now |-> now, days |-> days[i], times_used |-> used[i]]] :
        now \in Clock,
        days \in {[i \in 1..Len(FAKE_CREDENTIALS) |-> 30],
                  [i \in 1..Len(FAKE_CREDENTIALS) |-> 500],
                  [i \in 1..Len(FAKE_CREDENTIALS) |-> 30 + ((i * 157) % 471)]},
        used \in {[i \in 1..Len(FAKE_CREDENTIALS) |-> 5],
                  [i \in 1..Len(FAKE_CREDENTIALS) |-> 100],
                  [i \in 1..Len(FAKE_CREDENTIALS) |-> 5 + ((i * 7) % 96)]}}

\* the outcomes of the two random.choice calls of each iteration: the first
\* or the last site of the category, and a cookie type
CookieDraws ==
    {[i \in 1..Len(Categories) |->
         [site   |-> IF pick[i] = "first" THEN 1
                     ELSE Len(COMMON_WEBSITES[Categories[i]]),
          cookie |-> kind[i], value |-> "k3Jx", now |-> CHOOSE t \in RunClock : TRUE]] :
        pick \in [1..Len(Categories) -> {"first", "last"}],
        kind \in {[i \in 1..Len(Categories) |-> i], [i \in 1..Len(Categories) |-> 1]}}

InitDerive ==
    /\ pc = At(0, 0, "config")
    /\ fs = <<>>
    /\ origin = <<>>
    /\ calls = <<>>
    /\ ncalls = 0
    /\ history = <<>>
    /\ utcoffset \in UtcOffsets
    /\ outcome = NoOutcome
    /\ dt = Epoch1970
    /\ stamp = NoStamp
    /\ process = NoProcess

DerivePasswords ==
    /\ pc.step = "config"
    /\ \E draws \in CredentialDraws :
           calls' = <<[op |-> "generate_saved_passwords", by |-> "",
                       now |-> draws[1].now,
                       result |-> generate_saved_passwords(draws)]>>
    /\ ncalls' = ncalls + 1
    /\ pc' = At(0, 0, "returned")
    /\ UNCHANGED <<fs, origin, history, utcoffset, outcome, dt, stamp, process>>

DeriveCookies ==
    /\ pc.step = "config"
    /\ \E browser_name \in Range(Browsers) : \E draws \in CookieDraws :
           LET r == generate_cookies_file(fs, BrowserLabel(browser_name),
                                          _build_profile_paths[ProfileKey(browser_name)],
                                          BrowserDir(browser_name),
                                          [now |-> CHOOSE t \in RunClock : TRUE,
                                           draws |-> draws, fault |-> NoFault])
           IN  /\ fs' = r.fs
               /\ calls' = <<[op |-> "generate_cookies_file", by |-> browser_name,
                               result |-> r.cookies]>>
    /\ ncalls' = ncalls + 1
    /\ pc' = At(0, 0, "returned")
    /\ UNCHANGED <<origin, history, utcoffset, outcome, dt, stamp, process>>

\* site catalogs that config.py can hold: the shipped one, one with an
\* empty category, one with a category missing, one with every category
\* empty and one without categories
Catalogs ==
    {COMMON_WEBSITES,
     [COMMON_WEBSITES EXCEPT !.email = <<>>],
     [c \in DOMAIN COMMON_WEBSITES \ {"work"} |-> COMMON_WEBSITES[c]],
     [c \in DOMAIN COMMON_WEBSITES |-> <<>>],
     <<>>}

\* the outcomes one loop iteration can have against a catalog: the category
\* is drawn from site_weights, the site from the category's list (when it
\* has one)
CatalogDraws(websites) ==
    {Draw(c, IF c \in DOMAIN websites /\ websites[c] # <<>> THEN websites[c][1] ELSE <<>>,
          <<>>, d, 1) : c \in {"work", "email"}, d \in {0, 1}}

SynthesizeFromCatalog ==
    /\ pc.step = "config"
    /\ \E websites \in Catalogs : \E n \in 0..MaxEntries :
           \E draws \in [1..n -> CatalogDraws(websites)] :
               LET now == CHOOSE t \in RunClock : TRUE
                   r   == BrowsingHistoryFrom(websites, n, now, draws)
               IN  /\ \A i \in 1..n : draws[i].category \in DOMAIN site_weights
                   /\ history' = r.history
                   /\ calls' = <<[op |-> "generate_browsing_history", by |-> "",
                                   websites |-> websites, n |-> n, draws |-> draws,
                                   raised |-> r.raised, appended |-> r.appended,
                                   result |-> r.history]>>
                   /\ pc' = At(0, 0, IF r.raised THEN "raised" ELSE "returned")
    /\ ncalls' = ncalls + 1
    /\ UNCHANGED <<fs, origin, utcoffset, outcome, dt, stamp, process>>

\* one credentials step of one browser
DeriveCredentials ==
    /\ pc.step = "config"
    /\ \E browser_name \in Range(Browsers) : \E draws \in CredentialDraws :
           LET r == CredentialsOf(browser_name, fs, [draws |-> draws, fault |-> NoFault],
                                  utcoffset)
           IN  /\ fs' = r.fs
               /\ calls' = <<[op |-> "credentials", by |-> browser_name,
                               result |-> r.passwords]>>
    /\ ncalls' = ncalls + 1
    /\ pc' = At(0, 0, "returned")
    /\ UNCHANGED <<origin, history, utcoffset, outcome, dt, stamp, process>>

NextDerive == DerivePasswords \/ DeriveCookies \/ SynthesizeFromCatalog \/ DeriveCredentials

SpecDerive == InitDerive /\ [][NextDerive]_vars

(***************************************************************************)
(* Observers of the state that the properties are stated with.             *)
(***************************************************************************)
\* where a browser's history store and history summary are written
StorePath(browser_name) ==
    _build_profile_paths[ProfileKey(browser_name)]
        \o <<IF browser_name = "Firefox" THEN "places.sqlite" ELSE "History">>

SummaryPath(browser_name) == BrowserDir(browser_name) \o <<"History_Summary.txt">>

IsStore(file) == file.kind \in {"chromium", "firefox"}

\* the sites table (urls / moz_places) and the visits table of a store
Sites(store) == IF store.kind = "chromium" THEN store.urls ELSE store.moz_places

Visits(store) ==
    IF store.kind = "chromium" THEN store.visits ELSE store.moz_historyvisits

\* the site reference of a visits row (visits.url / moz_historyvisits.place_id)
SiteRef(store, i) ==
    IF store.kind = "chromium" THEN store.visits[i].url
    ELSE store.moz_historyvisits[i].place_id

WrittenStores == {fs[p] : p \in {q \in DOMAIN fs : IsStore(fs[q])}}

Urls(timeline) == {timeline[i].url : i \in 1..Len(timeline)}

EventsWithUrl(timeline, url) == {i \in 1..Len(timeline) : timeline[i].url = url}

\* the timeline in history was returned by generate_browsing_history
Generated == pc.step # "start" /\ calls # <<>>

BrowserSet == Range(Browsers)

HasHistoryFiles(b) == StorePath(b) \in DOMAIN fs /\ SummaryPath(b) \in DOMAIN fs

(***************************************************************************)
(* Store encoders (checked under SpecStore: fs holds the store written     *)
(* from the timeline in history).                                          *)
(***************************************************************************)
\* C1: the sites table (urls / moz_places) of every written store contains
\* exactly one row per distinct URL of the timeline it was written from, also
\* when several events share a URL.  The encoders insert one row per event.
C1_OneSitesRowPerUrl ==
    \A store \in WrittenStores :
        /\ {Sites(store)[i].url : i \in 1..Len(Sites(store))} = Urls(history)
        /\ Len(Sites(store)) = Cardinality(Urls(history))

\* C2: in every written store, each sites row's visit_count equals the number
\* of events of the input timeline that have the row's URL.  The encoders copy
\* the visit_count field of the row's event.
C2_VisitCountRecomputed ==
    \A store \in WrittenStores :
        \A i \in 1..Len(Sites(store)) :
            Sites(store)[i].visit_count
                = Cardinality(EventsWithUrl(history, Sites(store)[i].url))

\* C3: in every written store, every visits row's site reference equals the
\* id of a row of the sites table of the same store.
C3_VisitRefsResolve ==
    \A store \in WrittenStores :
        \A i \in 1..Len(Visits(store)) :
            \E j \in 1..Len(Sites(store)) : Sites(store)[j].id = SiteRef(store, i)

\* a store of several visits rows, written from a timeline in which two
\* events share a URL
C3_Witness ==
    /\ pc.step \in {"chromium", "firefox"}
    /\ \E store \in WrittenStores :
           /\ Len(Visits(store)) >= 2
           /\ Len(Visits(store)) = Len(history)
    /\ Cardinality(Urls(history)) < Len(history)

\* C4: the Chromium-family encoder turns the timeline of 3 events for
\* "github.com" (visit counts 1, 2, 1) and 1 event for "gmail.com" (visit
\* count 5) into a sites table of exactly 2 rows, with a "github.com" row of
\* aggregate visit count 4, and a visits table of exactly 4 rows.
C4_ScenarioStore ==
    (pc.step = "chromium" /\ history = ScenarioTimeline) =>
        LET store == fs[StorePath("Chrome")]
        IN  /\ Len(store.urls) = 2
            /\ \E i \in 1..Len(store.urls) :
                   /\ store.urls[i].url = Host2("github", "com")
                   /\ store.urls[i].visit_count = 4
            /\ Len(store.visits) = 4

SummaryLines(b) == fs[SummaryPath(b)].entries

SynthCalls(b) ==
    {k \in 1..Len(calls) : calls[k].op = "generate_browsing_history" /\ calls[k].by = b}

CallsOf(op, b) == {k \in 1..Len(calls) : calls[k].op = op /\ calls[k].by = b}

\* C7: in one run, generate_browsing_history is invoked once for each of the
\* three browsers, and the sequence it returned is the one passed, unmodified,
\* to that browser's store encoder and to _write_history_summary; no writer
\* is given a timeline generated for another browser.
C7_OneTimelinePerBrowser ==
    /\ \A b \in BrowserSet : Cardinality(SynthCalls(b)) <= 1
    /\ pc.step = "done" =>
           \A b \in BrowserSet :
               /\ Cardinality(SynthCalls(b)) = 1
               /\ Cardinality(CallsOf("store_encoder", b)) = 1
               /\ Cardinality(CallsOf("_write_history_summary", b)) = 1
    /\ \A k \in 1..Len(calls) :
           calls[k].op \in {"store_encoder", "_write_history_summary"} =>
               /\ \E g \in SynthCalls(calls[k].by) :
                      g < k /\ calls[k].timeline = calls[g].timeline
               /\ calls[k].path = (IF calls[k].op = "store_encoder"
                                   THEN _build_profile_paths[ProfileKey(calls[k].by)]
                                   ELSE BrowserDir(calls[k].by))

\* a finished run in which the browsers' timelines differ
C7_Witness ==
    /\ pc.step = "done"
    /\ \E k \in SynthCalls("Firefox") : \E g \in SynthCalls("Chrome") :
           /\ calls[k].timeline # calls[g].timeline
           /\ Len(calls[k].timeline) >= 2
           /\ calls[k].timeline[1] # calls[k].timeline[2]

(***************************************************************************)
(* Timeline synthesizer (checked under SpecStore).                         *)
(***************************************************************************)
\* C8: for every N and every outcome of the random draws, the sequence that
\* generate_browsing_history(N) returns is non-decreasing by visit_time.
C8_TimelineSorted ==
    Generated =>
        \A i \in 1..Len(history) : \A j \in 1..Len(history) :
            i < j => ~TupleLess(DtKey(history[j].visit_time), DtKey(history[i].visit_time))

\* a returned timeline whose events were drawn out of order
C8_Witness ==
    /\ Generated
    /\ Len(history) = calls[1].n
    /\ \E i \in 1..calls[1].n : \E j \in 1..calls[1].n :
           i < j /\ calls[1].random_days[i] > calls[1].random_days[j]

\* C9: every event returned by generate_browsing_history has visit_count >= 1
\* and has typed_count = 1 exactly when visit_count > 5, typed_count = 0
\* otherwise.
C9_TypedCountRule ==
    Generated =>
        \A i \in 1..Len(history) :
            /\ history[i].visit_count >= 1
            /\ history[i].typed_count \in {0, 1}
            /\ history[i].typed_count = 1 <=> history[i].visit_count > 5

\* a returned timeline with an event at the threshold and one above it
C9_Witness ==
    /\ Generated
    /\ \E i \in 1..Len(history) :
           history[i].visit_count = 5 /\ history[i].typed_count = 0
    /\ \E i \in 1..Len(history) :
           history[i].visit_count = 10 /\ history[i].typed_count = 1

(***************************************************************************)
(* Timestamp codecs (checked under SpecCodec).                             *)
(***************************************************************************)
\* 13348540800000000
Chrome2024 == IntMulSmall(IntMulSmall(IntFromSmall(133485408), 10000), 10000)

\* C10: chrome_timestamp(t) is, for every point in time t, the number of
\* whole microseconds from 1601-01-01T00:00:00 to t, exact to the
\* microsecond; 2024-01-01T00:00:00 encodes to 13348540800000000.
C10_ChromeExactMicroseconds ==
    stamp.codec = "chrome" =>
        /\ stamp.value = DeltaMicros(dt, Epoch1601)
        /\ dt = DateTime(2024, 1, 1, 0, 0, 0, 0) => stamp.value = Chrome2024

\* 1704067200000000
Firefox2024 == IntMulSmall(IntMulSmall(IntFromSmall(17040672), 10000), 10000)

\* C11: firefox_timestamp(t) returns, for every representable point in time
\* t, the number of microseconds from 1970-01-01T00:00:00 UTC to t, whatever
\* the local timezone of the host; 2024-01-01T00:00:00 encodes to
\* 1704067200000000.
C11_FirefoxExactMicroseconds ==
    stamp.codec = "firefox" =>
        /\ ~stamp.raised
        /\ stamp.value = DeltaMicros(dt, Epoch1970)
        /\ dt = DateTime(2024, 1, 1, 0, 0, 0, 0) => stamp.value = Firefox2024

\* x < y
IntLess(x, y) == IntSub(x, y).neg

\* epoch + micros microseconds, cut to whole seconds, is the second of d
DecodesToSecondOf(micros, epoch, d) ==
    LET s == DeltaSeconds([d EXCEPT !.microsecond = 0], epoch)
    IN  /\ ~IntLess(micros, IntMulSmall(s, 1000000))
        /\ IntLess(micros, IntMulSmall(IntAdd(s, IntFromSmall(1)), 1000000))

\* C12: both codecs are inverse-consistent: for every point in time t, the
\* codec's epoch (1601-01-01 for chrome_timestamp, 1970-01-01 for
\* firefox_timestamp) plus the encoded microsecond count, cut to whole
\* seconds, is the wall-clock second of t.
C12_DecodesToSameSecond ==
    /\ stamp.codec = "chrome" => DecodesToSecondOf(stamp.value, Epoch1601, dt)
    /\ stamp.codec = "firefox" =>
           ~stamp.raised /\ DecodesToSecondOf(stamp.value, Epoch1970, dt)

(***************************************************************************)
(* Credential and cookie derivation (checked under SpecDerive).            *)
(***************************************************************************)
\* what the call that was made returned
Returned(op) == {calls[k].result : k \in {j \in 1..Len(calls) : calls[j].op = op}}

CredentialKeys == {FAKE_CREDENTIALS[i].site : i \in 1..Len(FAKE_CREDENTIALS)}

\* the site of a credential record: its url without the scheme
SiteOf(record) == SubSeq(record.url, 3, Len(record.url))

\* C13: generate_saved_passwords returns exactly one record per key of
\* FAKE_CREDENTIALS: as many records as keys, every key the site of some
\* record, no site in two records.
C13_OneRecordPerKey ==
    \A records \in Returned("generate_saved_passwords") :
        /\ Len(records) = Cardinality(CredentialKeys)
        /\ \A key \in CredentialKeys :
               \E i \in 1..Len(records) :
                   SiteOf(records[i]) = key /\ SubSeq(records[i].url, 1, 2) = <<"https:", "//">>
        /\ \A i \in 1..Len(records) : \A j \in 1..Len(records) :
               i # j => SiteOf(records[i]) # SiteOf(records[j])

\* a returned list of several records whose random fields differ
C13_Witness ==
    /\ pc.step = "returned"
    /\ \E records \in Returned("generate_saved_passwords") :
           /\ Len(records) >= 2
           /\ \E i \in 1..Len(records) : \E j \in 1..Len(records) :
                  /\ records[i].times_used # records[j].times_used
                  /\ records[i].date_created # records[j].date_created

\* C14: for every entry of the credential map, the derived record's principal
\* is the entry's username when it has one and its email otherwise, and the
\* record's secret is the entry's password, unchanged.
C14_PrincipalAndSecret ==
    \A records \in Returned("generate_saved_passwords") :
        \A k \in 1..Len(FAKE_CREDENTIALS) :
            LET creds == FAKE_CREDENTIALS[k].creds
            IN  \E i \in 1..Len(records) :
                    /\ SiteOf(records[i]) = FAKE_CREDENTIALS[k].site
                    /\ records[i].username =
                           (IF "username" \in DOMAIN creds THEN creds.username
                            ELSE creds.email)
                    /\ records[i].password = creds.password

\* a returned list with the record of an entry that has a username and an
\* email, and the record of an entry that has an email only
C14_Witness ==
    \E records \in Returned("generate_saved_passwords") :
        /\ \E i \in 1..Len(records) : \E k \in 1..Len(FAKE_CREDENTIALS) :
               /\ SiteOf(records[i]) = FAKE_CREDENTIALS[k].site
               /\ {"username", "email"} \subseteq DOMAIN FAKE_CREDENTIALS[k].creds
               /\ records[i].username = USER_USERNAME
        /\ \E i \in 1..Len(records) : \E k \in 1..Len(FAKE_CREDENTIALS) :
               /\ SiteOf(records[i]) = FAKE_CREDENTIALS[k].site
               /\ "username" \notin DOMAIN FAKE_CREDENTIALS[k].creds
               /\ records[i].username = USER_EMAIL

\* the cookie records of the two files generate_cookies_file wrote for a browser
CookieFiles(b) ==
    {fs[p].entries : p \in {_build_profile_paths[ProfileKey(b)] \o <<"Cookies.json">>,
                            BrowserDir(b) \o <<"Cookies_Info.txt">>} \cap DOMAIN fs}

\* C15: generate_cookies_file produces exactly one cookie record per category
\* of COMMON_WEBSITES (as many cookies as categories, not as sites), and each
\* record's domain is "." followed by a site of the category it was derived
\* for.
C15_OneCookiePerCategory ==
    \A k \in {j \in 1..Len(calls) : calls[j].op = "generate_cookies_file"} :
        \A cookies \in {calls[k].result} \cup CookieFiles(calls[k].by) :
            /\ Len(cookies) = Cardinality(DOMAIN COMMON_WEBSITES)
            /\ \A i \in 1..Len(cookies) :
                   /\ Categories[i] \in DOMAIN COMMON_WEBSITES
                   /\ \E site \in Range(COMMON_WEBSITES[Categories[i]]) :
                          cookies[i].domain = <<".">> \o site
            /\ \A c \in DOMAIN COMMON_WEBSITES : \E i \in 1..Len(cookies) : Categories[i] = c

\* both cookie files written, with a record whose site is not the first of
\* its category and belongs to no other category
C15_Witness ==
    \E k \in 1..Len(calls) :
        /\ calls[k].op = "generate_cookies_file"
        /\ Cardinality(CookieFiles(calls[k].by)) >= 1
        /\ \A p \in {_build_profile_paths[ProfileKey(calls[k].by)] \o <<"Cookies.json">>,
                       BrowserDir(calls[k].by) \o <<"Cookies_Info.txt">>} : p \in DOMAIN fs
        /\ \E i \in 1..Len(calls[k].result) :
               /\ calls[k].result[i].domain # <<".">> \o COMMON_WEBSITES[Categories[i]][1]
               /\ \A j \in 1..Len(Categories) :
                      j # i => \A site \in Range(COMMON_WEBSITES[Categories[j]]) :
                                   calls[k].result[i].domain # <<".">> \o site

(***************************************************************************)
(* Recreation of a store (checked under Spec: a later run encodes another  *)
(* timeline at the path an earlier run wrote).                             *)
(***************************************************************************)
\* the store encoder calls of the current run that returned: the handler
\* went on to write the summary
ReturnedEncoderCalls ==
    {k \in 1..Len(calls) :
        /\ calls[k].op = "store_encoder"
        /\ \E j \in 1..Len(calls) :
               j > k /\ calls[j].op = "_write_history_summary" /\ calls[j].by = calls[k].by}

\* C16: a store encoder invoked against a profile path where an earlier
\* invocation wrote a store leaves a store whose sites and visits tables hold
\* exactly the rows derived from the timeline of the later invocation and
\* nothing of the earlier one: the file is deleted first, not added to.
C16_StoreHoldsLatestTimelineOnly ==
    \A k \in ReturnedEncoderCalls :
        LET store    == fs[StorePath(calls[k].by)]
            timeline == calls[k].timeline
        IN  /\ IsStore(store)
            /\ Len(Sites(store)) = Len(timeline)
            /\ Len(Visits(store)) = Len(timeline)
            /\ \A i \in 1..Len(timeline) :
                   /\ Sites(store)[i].id = i
                   /\ Sites(store)[i].url = timeline[i].url
                   /\ Sites(store)[i].title = timeline[i].title
                   /\ Sites(store)[i].visit_count = timeline[i].visit_count
                   /\ Visits(store)[i].id = i
                   /\ SiteRef(store, i) = i

\* a later run has encoded a browser's timeline at the path where an earlier
\* run left a store, and the earlier run's summary, still on disk, shows an
\* event that the later timeline does not have
C16_Witness ==
    \E k \in ReturnedEncoderCalls :
        LET b == calls[k].by
        IN  /\ pc.run >= 2
            /\ origin[StorePath(b)].run = pc.run
            /\ SummaryPath(b) \in DOMAIN fs
            /\ origin[SummaryPath(b)].run < pc.run
            /\ fs[SummaryPath(b)].kind = "text"
            /\ \E i \in 1..Len(SummaryLines(b)) :
                   SummaryLines(b)[i].url \notin Urls(calls[k].timeline)

(***************************************************************************)
(* The rev_host column (checked under SpecStore).                          *)
(***************************************************************************)
\* the host of a URL: what follows the scheme, without the path or query
HostOf(url) ==
    LET parts == Split(url, "//")
    IN  SelectSeq(parts[Len(parts)], LAMBDA t : <<t>> \notin Range(paths))

\* C17: for every event written by the Gecko-family encoder, rev_host is the
\* host of the event's URL with its dot-separated labels in reverse order,
\* joined by dots, also for URLs that carry a path or query suffix.
C17_RevHostIsReversedHost ==
    \A store \in {st \in WrittenStores : st.kind = "firefox"} :
        \A i \in 1..Len(store.moz_places) :
            store.moz_places[i].rev_host
                = Join(Reverse(Split(HostOf(store.moz_places[i].url), ".")), ".")

(***************************************************************************)
(* Configuration errors (checked under SpecDerive).                        *)
(***************************************************************************)
\* the category weights are empty or not positive, a category of the
\* catalog (or weighted category) has no sites, or the window has no days
Misconfigured(websites) ==
    \/ DOMAIN site_weights = {}
    \/ \E c \in DOMAIN site_weights : site_weights[c] <= 0
    \/ DOMAIN websites = {}
    \/ \E c \in DOMAIN websites : websites[c] = <<>>
    \/ \E now \in RunClock : ToOrdinal(now) <= ToOrdinal(DtPlusDays(now, -90))

\* C18: if the category weights are empty or malformed, or a category of
\* the site catalog has an empty site list, or the time window is empty,
\* generate_browsing_history signals an error before it synthesizes any
\* event, for every N (0 and small N included), and returns no timeline.
\* The weights and the window are fixed in the code; the catalog is
\* configuration.
C18_MisconfigurationSignalled ==
    \A k \in {j \in 1..Len(calls) : calls[j].op = "generate_browsing_history"} :
        Misconfigured(calls[k].websites) =>
            /\ calls[k].raised
            /\ calls[k].appended = 0

(***************************************************************************)
(* Failures in the coordinator (checked under Spec: a fault stops a        *)
(* browser's pipeline at any of its steps).                                *)
(***************************************************************************)
IsPrefix(dir, path) ==
    Len(dir) <= Len(path) /\ \A i \in 1..Len(dir) : path[i] = dir[i]

\* the artifacts of a browser: the files below its profile directory and
\* below its Browser_Data directory
ArtifactsOf(browser_name, fsys) ==
    {p \in DOMAIN fsys :
        \/ IsPrefix(_build_profile_paths[ProfileKey(browser_name)], p)
        \/ IsPrefix(BrowserDir(browser_name), p)}

\* the browsers whose pipelines the current run went through before the
\* one it is in
EarlierBrowsers == {Browsers[i] : i \in 1..(pc.browser - 1)}

PipelineSteps == {"begin", "history", "credentials", "cookies"}

\* C19: when a step of one browser's pipeline fails, every file of the
\* browsers processed earlier in the run is still on disk afterwards, with
\* the content it had before the failing step: none is deleted, truncated
\* or rewritten.
C19_EarlierBrowsersUntouched ==
    [][(pc.step \in PipelineSteps /\ pc'.step = "failed") =>
           \A b \in EarlierBrowsers :
               \A p \in ArtifactsOf(b, fs) : p \in DOMAIN fs' /\ fs'[p] = fs[p]]_vars

\* the pipeline of the second or third browser failed after the run wrote
\* all six artifacts of Chrome, and the failure left a file of the failing
\* browser truncated
C19_Witness ==
    /\ pc.step = "failed"
    /\ pc.browser >= 2
    /\ Cardinality(ArtifactsOf("Chrome", fs)) = 6
    /\ HasHistoryFiles("Chrome")
    /\ origin[StorePath("Chrome")].run = pc.run
    /\ origin[SummaryPath("Chrome")].run = pc.run
    /\ \A p \in ArtifactsOf("Chrome", fs) : fs[p] # ZeroByteFile
    /\ \E p \in ArtifactsOf(Browsers[pc.browser], fs) : fs[p] = ZeroByteFile

(***************************************************************************)
(* Failure of a step of populate_all (checked under Spec).                 *)
(***************************************************************************)
\* the step of populate_all that a transition into "failed" was running
RaisingStage ==
    IF pc.step \in {"idle", "exited"} THEN Stages[1]
    ELSE IF pc.step \in PipelineSteps THEN Stages[2]
    ELSE Stages[StageNumber(process.stage) + 1]

\* C20: when a step of populate_all raises, the process prints an error
\* report that names that step and exits with status 1, and every file that
\* was on disk when the step raised is still there with the same content
\* when the process has exited: nothing is removed or rolled back.  The
\* process exits with status 0 only when all nine steps returned.
C20_FailureReportedNothingRolledBack ==
    [][/\ (pc.step # "failed" /\ pc'.step = "failed") => process'.stage = RaisingStage
       /\ pc.step = "failed" =>
              /\ pc'.step = "exited"
              /\ process'.status = "exit_1"
              /\ process'.reported = process.stage
              /\ fs' = fs
       /\ (pc'.step = "exited" /\ process'.status = "exit_0") =>
              (pc.step = "populated" /\ process.stage = Stages[Len(Stages)])]_vars

\* the process has exited with status 1 after step 5 raised: its report names
\* generate_all_office_documents, and the stores and summaries of the three
\* browsers and the files of steps 3 and 4, written in the run before the
\* step raised, are on disk
C20_Witness ==
    /\ pc.step = "exited"
    /\ process.status = "exit_1"
    /\ process.reported = "generate_all_office_documents"
    /\ \A b \in BrowserSet :
           /\ HasHistoryFiles(b)
           /\ IsStore(fs[StorePath(b)])
           /\ origin[StorePath(b)].run = pc.run
           /\ origin[SummaryPath(b)].run = pc.run
    /\ FirstFile["generate_all_tax_documents"] \in DOMAIN fs
    /\ FirstFile["generate_all_investment_documents"] \in DOMAIN fs
    /\ FirstFile["generate_all_office_documents"] \notin DOMAIN fs

(***************************************************************************)
(* Order of the work of generate_all_browser_data (checked under Spec).    *)
(***************************************************************************)
\* the place of a call in one run: Chrome's calls, then Firefox's, then
\* Edge's, and for one browser the synthesizer, the store encoder, the
\* history summary, the credentials step and the cookies step
CallRank(call) ==
    5 * ([Chrome |-> 0, Firefox |-> 1, Edge |-> 2][call.by])
    + [generate_browsing_history |-> 1, store_encoder |-> 2,
       _write_history_summary |-> 3, credentials |-> 4, cookies |-> 5][call.op]

\* the history files that the current run wrote
WrittenInRun == {p \in DOMAIN origin : origin[p].run = pc.run}

\* C21: the calls of a run are made browser after browser in the order
\* Chrome, Firefox, Edge, and for one browser in the order synthesizer, store
\* encoder, history summary, credentials, cookies; a history file that the
\* run has written belongs to a browser whose store encoder is among these
\* calls, so none is written ahead of its browser's turn.
C21_OneBrowserAfterAnother ==
    /\ \A j, k \in 1..Len(calls) : j < k => CallRank(calls[j]) < CallRank(calls[k])
    /\ \A b \in {"Chrome", "Firefox", "Edge"} :
           ArtifactsOf(b, fs) \cap WrittenInRun # {} =>
               \E k \in 1..Len(calls) : calls[k].by = b /\ calls[k].op = "store_encoder"

\* generate_all_browser_data returned after all fifteen calls of the three
\* pipelines
C21_Witness ==
    /\ pc.step = "done"
    /\ Len(calls) = 15
    /\ calls[1].by = "Chrome" /\ calls[6].by = "Firefox" /\ calls[11].by = "Edge"
    /\ \A b \in BrowserSet : StorePath(b) \in WrittenInRun

(***************************************************************************)
(* The three pipelines side by side.  The code runs them one after another *)
(* (generate_all_browser_data); here the loop body is taken once per       *)
(* browser and the file writes of the three bodies are interleaved in      *)
(* every order.  pc.step holds, per browser, the number of the write its   *)
(* pipeline makes next; history holds, per browser, the inputs of its      *)
(* pipeline.                                                               *)
(***************************************************************************)
\* the files one pipeline writes, in the order it writes them: the store and
\* the summary of the history handler, the login file and the summary of the
\* credentials handler, the two files of generate_cookies_file
PipelineWrites(browser_name) ==
    LET profile_dir == _build_profile_paths[ProfileKey(browser_name)]
        output_dir  == BrowserDir(browser_name)
    IN  <<StorePath(browser_name),
          SummaryPath(browser_name),
          profile_dir \o <<IF browser_name = "Firefox" THEN "logins.json"
                           ELSE "Login Data.json">>,
          output_dir \o <<[Chrome |-> "Saved_Passwords.txt",
                           Firefox |-> "Saved_Passwords_Firefox.txt",
                           Edge |-> "Saved_Passwords_Edge.txt"][browser_name]>>,
          output_dir \o <<"Cookies_Info.txt">>,
          profile_dir \o <<"Cookies.json">>>>

\* what the three steps of one pipeline meet when nothing fails
PipelineInputs ==
    [history     : HistoryInputs(RunClock, RunDraws(RunEntries),
                                 {[i \in 1..RunEntries |-> 5]}, {"none"}),
     credentials : {[draws |-> RunCredentialDraws, fault |-> NoFault]},
     cookies     : {[now |-> CHOOSE t \in RunClock : TRUE, draws |-> RunCookieDraws,
                     fault |-> NoFault]}]

\* generators["history"](browser_dir)
HistoryOf(browser_name, fsys, inp, offset) ==
    IF browser_name = "Chrome"
    THEN generate_chrome_history(fsys, BrowserDir("Chrome"), RunEntries, inp, offset)
    ELSE IF browser_name = "Firefox"
    THEN generate_firefox_history(fsys, BrowserDir("Firefox"), RunEntries, inp, offset)
    ELSE generate_edge_history(fsys, BrowserDir("Edge"), RunEntries, inp, offset)

\* the loop body of generate_all_browser_data for one browser, run from
\* beginning to end on a file system: the file system it leaves
Pipeline(browser_name, fsys, inp, offset) ==
    LET hist  == HistoryOf(browser_name, fsys, inp.history, offset)
        creds == CredentialsOf(browser_name, hist.fs, inp.credentials, offset)
    IN  generate_cookies_file(creds.fs, BrowserLabel(browser_name),
                              _build_profile_paths[ProfileKey(browser_name)],
                              BrowserDir(browser_name), inp.cookies).fs

\* the file system that the handler of the k-th write of a pipeline leaves:
\* writes 1 and 2 are the history handler's, 3 and 4 the credentials
\* handler's, 5 and 6 those of generate_cookies_file
StageOf(browser_name, k, fsys, inp, offset) ==
    IF k <= 2 THEN HistoryOf(browser_name, fsys, inp.history, offset).fs
    ELSE IF k <= 4 THEN CredentialsOf(browser_name, fsys, inp.credentials, offset).fs
    ELSE generate_cookies_file(fsys, BrowserLabel(browser_name),
                               _build_profile_paths[ProfileKey(browser_name)],
                               BrowserDir(browser_name), inp.cookies).fs

InitParallel ==
    /\ pc = At(1, 0, [Chrome |-> 1, Firefox |-> 1, Edge |-> 1])
    /\ fs = <<>>
    /\ origin = <<>>
    /\ calls = <<>>
    /\ ncalls = 0
    /\ history \in [{"Chrome", "Firefox", "Edge"} -> PipelineInputs]
    /\ utcoffset = 3600
    /\ outcome = NoOutcome
    /\ dt = Epoch1970
    /\ stamp = NoStamp
    /\ process = Running(Stages[2])

\* the next write of one of the pipelines: the file gets the content that
\* the handler the write belongs to gives it on the file system as it is.  origin
\* holds, per path, the pipelines that wrote it; calls logs the first write
\* of each pipeline and whether another pipeline was under way at that time.
ParallelWrite ==
    \E b \in {"Chrome", "Firefox", "Edge"} :
        /\ pc.step[b] <= Len(PipelineWrites(b))
        /\ LET path     == PipelineWrites(b)[pc.step[b]]
               underway == \E c \in {"Chrome", "Firefox", "Edge"} \ {b} :
                               pc.step[c] \in 2..Len(PipelineWrites(c))
           IN  /\ fs' = WriteFile(fs, path, StageOf(b, pc.step[b], fs, history[b], utcoffset)[path])
               /\ origin' = (path :> ((IF path \in DOMAIN origin THEN origin[path] ELSE {})
                                      \cup {b})) @@ origin
               /\ calls' = IF pc.step[b] = 1
                           THEN Append(calls, [by |-> b, op |-> "write", path |-> path,
                                               underway |-> underway])
                           ELSE calls
        /\ ncalls' = ncalls + 1
        /\ pc' = At(1, 0, [pc.step EXCEPT ![b] = pc.step[b] + 1])
        /\ UNCHANGED <<history, utcoffset, outcome, dt, stamp, process>>

NextParallel == ParallelWrite

SpecParallel == InitParallel /\ [][NextParallel]_vars

\* generate_all_browser_data from beginning to end with the same inputs
SequentialRun ==
    Pipeline("Edge",
             Pipeline("Firefox",
                      Pipeline("Chrome", <<>>, history["Chrome"], utcoffset),
                      history["Firefox"], utcoffset),
             history["Edge"], utcoffset)

AllWritten == \A b \in {"Chrome", "Firefox", "Edge"} : pc.step[b] > Len(PipelineWrites(b))

\* C22: the paths written by the pipelines of Chrome, Firefox and Edge are
\* pairwise disjoint: in every interleaving of the writes of the three
\* pipelines no path is written by two of them, and when all have finished
\* the file system is the one that the sequential run leaves.
C22_DisjointPathsAnyInterleaving ==
    /\ \A p \in DOMAIN origin : Cardinality(origin[p]) = 1
    /\ AllWritten => fs = SequentialRun

\* the three pipelines have finished after an interleaving in which Edge
\* began first and Chrome last, Firefox and Chrome each beginning while
\* another pipeline was under way, and in which Chrome and Edge synthesized
\* different timelines
C22_Witness ==
    /\ AllWritten
    /\ Cardinality(DOMAIN fs) = 18
    /\ Len(calls) = 3
    /\ calls[1].by = "Edge" /\ calls[2].by = "Firefox" /\ calls[3].by = "Chrome"
    /\ calls[2].underway /\ calls[3].underway
    /\ history["Chrome"].history.draws # history["Edge"].history.draws

(***************************************************************************)
(* The time window of the synthesizer (checked under SpecStore).           *)
(***************************************************************************)
\* C23: every event returned by generate_browsing_history has a visit_time
\* between the time of the call less 90 days and the time of the call, both
\* included.
C23_VisitTimeInWindow ==
    Generated =>
        LET end   == calls[1].now
            start == DtPlusDays(end, 0 - 90)
        IN  \A i \in 1..Len(history) :
                DtLeq(start, history[i].visit_time) /\ DtLeq(history[i].visit_time, end)

\* a returned timeline with an event at the very start of the window and one
\* on the last day that random_date can give, a day before the call
C23_Witness ==
    /\ Generated
    /\ Len(history) >= 2
    /\ history[1].visit_time = DtPlusDays(calls[1].now, 0 - 90)
    /\ history[Len(history)].visit_time = DtPlusDays(calls[1].now, 0 - 1)

(***************************************************************************)
(* The two files of a credentials step (checked under SpecDerive).         *)
(***************************************************************************)
\* the browsers whose credentials step returned
CredentialSteps == {calls[k].by : k \in {j \in 1..Len(calls) : calls[j].op = "credentials"}}

LoginFile(b) == fs[PipelineWrites(b)[3]]

PasswordSummaryFile(b) == fs[PipelineWrites(b)[4]]

\* the entries of a login file with the names of the Chromium-family document
LoginEntries(b) ==
    IF b = "Firefox"
    THEN [i \in 1..Len(LoginFile(b).logins) |->
             [origin_url |-> LoginFile(b).logins[i].hostname,
              username   |-> LoginFile(b).logins[i].encryptedUsername,
              password   |-> LoginFile(b).logins[i].encryptedPassword,
              times_used |-> LoginFile(b).logins[i].timesUsed]]
    ELSE LoginFile(b).entries

\* the creation time of a login entry is the one its summary entry shows: the
\* date of the ISO string, or the second, in the host's local time, of the
\* Gecko timestamp
SameCreation(b, i) ==
    LET shown == PasswordSummaryFile(b).entries[i].created
    IN  IF b = "Firefox"
        THEN DecodesToSecondOf(
                 IntAdd(LoginFile(b).logins[i].timeCreated,
                        IntMulSmall(IntFromSmall(utcoffset), 1000000)),
                 Epoch1970,
                 DateTime(shown[1], shown[2], shown[3], shown[4], shown[5], shown[6], 0))
        ELSE SubSeq(LoginFile(b).entries[i].date_created, 1, 3) = shown

\* C24: after a credentials step the login file and the password summary of
\* the browser hold the same records: the summary's total is the number of
\* login entries, and entry by entry the site, the principal, the secret,
\* the creation time and the usage count agree.
C24_LoginsMatchSummary ==
    \A b \in CredentialSteps :
        LET logins  == LoginEntries(b)
            summary == PasswordSummaryFile(b)
        IN  /\ summary.total = Len(logins)
            /\ Len(summary.entries) = Len(logins)
            /\ \A i \in 1..Len(logins) :
                   /\ logins[i].origin_url = summary.entries[i].url
                   /\ logins[i].username = summary.entries[i].username
                   /\ logins[i].password = summary.entries[i].password
                   /\ logins[i].times_used = summary.entries[i].used
                   /\ SameCreation(b, i)

\* the credentials step of Firefox returned on a host that is not on UTC,
\* with records that differ in creation time and in usage count
C24_Witness ==
    /\ pc.step = "returned"
    /\ "Firefox" \in CredentialSteps
    /\ utcoffset # 0
    /\ Len(LoginEntries("Firefox")) = Len(FAKE_CREDENTIALS)
    /\ \E i, j \in 1..Len(LoginEntries("Firefox")) :
           /\ LoginEntries("Firefox")[i].times_used # LoginEntries("Firefox")[j].times_used
           /\ PasswordSummaryFile("Firefox").entries[i].created
                  # PasswordSummaryFile("Firefox").entries[j].created

(***************************************************************************)
(* The login document of Firefox (checked under SpecDerive).               *)
(***************************************************************************)
\* the record lists of the returned credentials steps of Firefox
FirefoxCredentialSteps ==
    {k \in 1..Len(calls) : calls[k].op = "credentials" /\ calls[k].by = "Firefox"}

\* C25: in the login document that generate_firefox_credentials writes, the
\* counter nextId is the number of logins plus one, the ids of the logins
\* are 1..n, each once, and every login has its hostname as formSubmitURL
\* and, as timeCreated and as timePasswordChanged, firefox_timestamp of the
\* creation time of its record.
C25_FirefoxLoginDocument ==
    \A k \in FirefoxCredentialSteps :
        LET doc     == LoginFile("Firefox")
            records == calls[k].result
            n       == Len(doc.logins)
        IN  /\ n = Len(records)
            /\ doc.nextId = n + 1
            /\ {doc.logins[i].id : i \in 1..n} = 1..n
            /\ \A i, j \in 1..n : i # j => doc.logins[i].id # doc.logins[j].id
            /\ \A i \in 1..n :
                   /\ doc.logins[i].hostname = records[i].url
                   /\ doc.logins[i].formSubmitURL = doc.logins[i].hostname
                   /\ doc.logins[i].timeCreated
                          = firefox_timestamp(records[i].date_created, utcoffset)
                   /\ doc.logins[i].timePasswordChanged = doc.logins[i].timeCreated

\* a written login document with one login per credential, created at
\* different times
C25_Witness ==
    /\ pc.step = "returned"
    /\ FirefoxCredentialSteps # {}
    /\ LoginFile("Firefox").kind = "firefox_logins"
    /\ LoginFile("Firefox").nextId = Len(FAKE_CREDENTIALS) + 1
    /\ \E i, j \in 1..Len(LoginFile("Firefox").logins) :
           LoginFile("Firefox").logins[i].timeCreated
               # LoginFile("Firefox").logins[j].timeCreated

(***************************************************************************)
(* The ranges of the credential records (checked under SpecDerive).        *)
(***************************************************************************)
\* the returned calls of generate_saved_passwords
PasswordCalls == {k \in 1..Len(calls) : calls[k].op = "generate_saved_passwords"}

\* C26: every record that generate_saved_passwords returns was created at
\* least 30 and at most 500 days before the clock reading of the call, and
\* has been used at least 5 and at most 100 times.
C26_RecordRanges ==
    \A k \in PasswordCalls :
        \A i \in 1..Len(calls[k].result) :
            LET record == calls[k].result[i]
            IN  /\ DtLeq(DtPlusDays(calls[k].now, 0 - 500), record.date_created)
                /\ DtLeq(record.date_created, DtPlusDays(calls[k].now, 0 - 30))
                /\ 5 <= record.times_used
                /\ record.times_used <= 100

\* a returned list with a record at the far end of both ranges: created 500
\* days before the clock reading and used 100 times
C26_Witness ==
    /\ pc.step = "returned"
    /\ \E k \in PasswordCalls :
           \E i \in 1..Len(calls[k].result) :
               /\ calls[k].result[i].date_created = DtPlusDays(calls[k].now, 0 - 500)
               /\ calls[k].result[i].times_used = 100

(***************************************************************************)
(* The visits rows of a store (checked under SpecStore).                   *)
(***************************************************************************)
\* the timestamp of a visits row (visits.visit_time /
\* moz_historyvisits.visit_date)
VisitStamp(store, i) ==
    IF store.kind = "chromium" THEN store.visits[i].visit_time
    ELSE store.moz_historyvisits[i].visit_date

\* the codec of the family of a store
FamilyCodec(store, visit_time) ==
    IF store.kind = "chromium" THEN chrome_timestamp(visit_time)
    ELSE firefox_timestamp(visit_time, utcoffset)

\* C27: a store written from a timeline of N events has exactly N visits
\* rows; the i-th inserted row has id i and, as its timestamp, the codec of
\* the store's family applied to the visit_time of the i-th event of the
\* timeline; the timestamps do not decrease as the ids ascend.
C27_VisitsRowPerEventInOrder ==
    \A store \in WrittenStores :
        /\ Len(Visits(store)) = Len(history)
        /\ \A i \in 1..Len(Visits(store)) :
               /\ Visits(store)[i].id = i
               /\ VisitStamp(store, i) = FamilyCodec(store, history[i].visit_time)
        /\ \A i, j \in 1..Len(Visits(store)) :
               Visits(store)[i].id < Visits(store)[j].id
                   => ~IntLess(VisitStamp(store, j), VisitStamp(store, i))

\* a store written from a timeline of the largest size whose first and last
\* events were visited at different times
C27_Witness ==
    /\ pc.step \in {"chromium", "firefox"}
    /\ Len(history) = MaxEntries
    /\ history[1].visit_time # history[MaxEntries].visit_time
    /\ \E store \in WrittenStores :
           /\ Len(Visits(store)) = MaxEntries
           /\ IntLess(VisitStamp(store, 1), VisitStamp(store, MaxEntries))

(***************************************************************************)
(* The events a summary lists (checked under Spec).                        *)
(***************************************************************************)
\* min(50, N), scaled
ShownOf(N) == IF N <= SummaryTail THEN N ELSE SummaryTail

\* lines are the last ShownOf(N) events of the N-event timeline, in the
\* order of the timeline, each with the time, title, URL and visit count of
\* its own event
ListsLatest(lines, timeline) ==
    LET N == Len(timeline)
    IN  /\ Len(lines) = ShownOf(N)
        /\ \A i \in 1..Len(lines) :
               LET event == timeline[N - ShownOf(N) + i]
               IN  /\ lines[i].url = event.url
                   /\ lines[i].title = event.title
                   /\ lines[i].visits = event.visit_count
                   /\ lines[i].time = StrfTime(event.visit_time)

EpochOffsetMicros == DeltaMicros(Epoch1970, Epoch1601)

\* the values the generators hand to the codecs lie within 500 days of
\* datetime.now()
NearNow(d) == d.year \in {2024, 2026}

\* C29: for every datetime the generators produce, on a host of every UTC
\* offset, chrome_timestamp(dt) - firefox_timestamp(dt) is
\* 11644473600000000: both codecs take the value for the same instant.
\* firefox_timestamp reads the naive value as the host's local time,
\* chrome_timestamp reads it as it stands.
C29_CodecsDifferByEpochOffset ==
    (stamp.codec = "firefox" /\ ~stamp.raised /\ NearNow(dt)) =>
        IntSub(chrome_timestamp(dt), stamp.value) = EpochOffsetMicros

(***************************************************************************)
(* A raising pipeline stops the run (checked under Spec).                  *)
(***************************************************************************)
\* the history step of the browser raised in the current run, after it wrote
\* a store or a summary
RaisedInRun(browser_name) ==
    /\ outcome[browser_name] = "raised"
    /\ ArtifactsOf(browser_name, fs) \cap WrittenInRun # {}

\* the pipeline of the i-th browser raised in the current run and nothing
\* has run since but the except clause and the exit
StoppedAt(i) == pc.step \in {"failed", "exited"} /\ pc.browser = i

\* C30: when a step of the pipeline of a browser raises,
\* generate_all_browser_data is left at once: the pipelines of the browsers
\* that come later in Chrome, Firefox, Edge are not started (none of their
\* handlers is called, none of their stores or summaries is written), none
\* of the stages after the browser data is run, and populate_all returns
\* False (the process exits with status 1).
C30_RaisingPipelineStopsRun ==
    \A i \in 1..Len(Browsers) :
        /\ RaisedInRun(Browsers[i]) => StoppedAt(i)
        /\ StoppedAt(i) =>
               /\ \A k \in 1..Len(calls) :
                      \E j \in 1..i : calls[k].by = Browsers[j]
               /\ \A j \in (i + 1)..Len(Browsers) :
                      ArtifactsOf(Browsers[j], fs) \cap WrittenInRun = {}
               /\ process.stage = Stages[2]
               /\ pc.step = "exited" =>
                      /\ process.status = "exit_1"
                      /\ process.reported = Stages[2]

\* the process has exited after the history step of Firefox raised; the
\* pipeline of Chrome had run, and a store of Edge is left from the run before
C30_Witness ==
    /\ pc.step = "exited"
    /\ pc.browser = 2
    /\ RaisedInRun("Firefox")
    /\ StorePath("Chrome") \in WrittenInRun
    /\ Len(calls) >= 5
    /\ StorePath("Edge") \in DOMAIN fs

====
